---- MODULE Spec2Model ----
(***************************************************************************)
(* Verification model of safe-agent-treasury.                              *)
(*                                                                         *)
(*   SpecCfg     agent-treasury-configure.mjs (the Execution Sequencer)    *)
(*               against the Safe and the AllowanceModule.                 *)
(*   SpecRefill  agent-treasury-refill.mjs (autonomous pulls) against the  *)
(*               AllowanceModule, with allowance (re)configuration and     *)
(*               the passing of time.                                      *)
(*   SpecStatus  the per-allowance evaluation of agent-treasury-status.mjs *)
(*   SpecRelay   agent-treasury-propose.mjs (propose / confirm / pending)  *)
(*               against the Safe Transaction Service (the relay).         *)
(*                                                                         *)
(* The ledger contracts and the relay are external collaborators: only     *)
(* their ABIs and HTTP calls are in the repository.  Their behaviour is    *)
(* modelled from the specification's description of them (sections 3, 4.3, *)
(* 4.5 and 6) and these definitions are the Ledger* and Relay* operators.  *)
(*                                                                         *)
(* Amounts are in model units: one unit is 10 MOR for MOR and 0.01 ETH for *)
(* ETH, so the defaults 20/30/50 MOR and 0.01/0.03/0.05 ETH are 2/3/5 and  *)
(* 1/3/5.  Minutes are in ticks; the reset interval is a run argument.     *)
(***************************************************************************)
EXTENDS Integers, Sequences, FiniteSets, TLC

\* ---------------------------------------------------------------- bounds
MaxRuns == 2          \* configure runs per behaviour
MaxTime == 3          \* last minute (tick) the clock reaches
MaxRefills == 2       \* refill runs per behaviour
MaxSpend == 2         \* times the hot wallet spends from its balance
MaxNonce == 2         \* Safe nonce values 0..MaxNonce are explored
MaxCmds == 3          \* propose/confirm commands per behaviour
MaxEnvChanges == 1    \* threshold changes by other parties per behaviour
MaxDelegates == 12    \* delegates registered on the account's allowance module
MaxCfgTime == 2       \* last minute (tick) the clock reaches during configure runs
SubMin == 2           \* clock ticks per minute (the code's clock is in milliseconds)
EtherDecimals == 2    \* decimals of one ether in model units (18 in wei)

\* ------------------------------------------------------------ identities
Agent == "agent"
Human == "human"
Owners == {Agent, Human}
MOR == "MOR"
ETH == "ETH"
Assets == {MOR, ETH}

VARIABLES
  \* ---- ledger: the Safe
  threshold,        \* getThreshold()
  owners,           \* getOwners()
  moduleEnabled,    \* isModuleEnabled(ALLOWANCE_MODULE)
  safeNonce,        \* nonce()
  \* ---- ledger: the AllowanceModule
  delegates,        \* getDelegates(safe)
  allowance,        \* [Assets -> [amount, spent, resetTimeMin, lastResetMin, nonce]]
  nowMin,           \* block.timestamp / 60, also the wall clock in minutes
  \* ---- configure run (the Sequencer)
  cfgPc,            \* position of the run in main()
  cfgArgs,          \* [dryRun, mor, eth, reset]: the run's arguments
  cfgThreshold,     \* threshold as read at the start of the run
  cfgModuleEnabled, \* moduleEnabled as read at the start of the run
  cfgLog,           \* the on-chain writes of this run: Seq([step, status])
  cfgRuns,          \* number of runs started
  cfgPrev,          \* how the last finished run ended and whether the ledger changed since
  cfgAfterFull,     \* this run started right after a full run, nothing changed since
  cfgEnv,           \* number of threshold changes made by other parties
  cfgFlight,        \* the Safe transactions submitted and not yet confirmed
  rpcNonce,         \* the Safe nonce the read replica serves (it can lag the chain)
  cfgSettled,       \* settle() has run since the last receipt of this run (or none yet)
  cfgOrphans,       \* transactions in flight whose process was terminated
  applied,          \* the Safe transactions that took effect, one record each
  cfgAfterKill,     \* this run started after the previous run's process was terminated
  rpcLagBounded,    \* the read replica never lags by more than the settle delay
  \* ---- deploy run
  depPc,            \* position of the deploy run in main()
  depArgs,          \* [dryRun, threshold]: the deploy run's arguments
  safeAddress,      \* SAFE_ADDRESS of .env: "unset" until a Safe is deployed
  \* ---- refill run
  refillPc,
  refillCfg,        \* [low, amount]: per-asset thresholds and refill amounts (.env)
  balance,          \* hot wallet balance per asset
  refillRead,       \* balances as read at the start of the run
  refillRuns,
  spends,
  pulls,            \* the pulls submitted by this run: Seq([asset, amount, remaining, status])
  pulledAt,         \* [Assets -> [minute -> amount successfully pulled in that minute]]
  lastEv,           \* the last AllowanceModule operation: [kind, asset, status]
  pullFlight,       \* the pulls submitted whose receipt the run has not seen yet
  \* ---- status evaluation
  stIn,             \* [Assets -> the tuple getTokenAllowance returned]
  stNow,            \* Date.now(), in clock ticks (SubMin ticks to the minute)
  stOut,            \* result.allowances: the entries pushed so far
  stPc,             \* the label the for-loop is at, or "idle" / "done"
  viewPc,           \* position of the status run in main()
  viewResult,       \* the result object of the status run
  viewFaults,       \* the reads of the status run that failed
  \* ---- relay and proposals
  relay,            \* [commitment -> proposal] as stored by the Transaction Service
  proc,             \* per owner: the command in progress
  lastPost,         \* the last POST to the relay and what it answered
  relayCmds,        \* commands started so far
  pending,          \* the response the last listing fetched from the relay
  listing,          \* the entries the last listing reported, per commitment
  listThreshold,    \* the Safe's threshold when the last listing was made
  posted,           \* {<<owner, commitment, overlapped>>}: POSTs by owners for known commitments
  keyLoads,         \* the commands whose process loaded the private key
  \* ---- the pure functions, applied to drawn inputs
  dgIn,             \* two inputs of computeSafeTxHash
  dgOut,            \* their two commitments, <<>> before the computation
  sgIn,             \* [signer, digest, raw]: a digest and what the key custody returned for it
  sgOut,            \* <<outcome, adjusted raw, signSafeTxHash, execSafeTx signature>>
  prIn,             \* the account's delegates in the order getDelegates lists them
  prOut             \* <<page read, alreadyDelegate, transaction submitted>> of TX 2

ledgerVars == <<threshold, owners, moduleEnabled, safeNonce, delegates, allowance, nowMin>>
cfgAux == <<cfgFlight, rpcNonce, cfgSettled>>
cfgConc == <<cfgOrphans, applied, cfgAfterKill, rpcLagBounded>>
depVars == <<depPc, depArgs, safeAddress>>
cfgVars == <<cfgPc, cfgArgs, cfgThreshold, cfgModuleEnabled, cfgLog, cfgRuns, cfgPrev, cfgAfterFull,
            cfgEnv, cfgAux, cfgConc, depVars>>
refillVars == <<refillPc, refillCfg, balance, refillRead, refillRuns, spends, pulls, pulledAt,
               lastEv, pullFlight>>
viewVars == <<viewPc, viewResult, viewFaults>>
statusVars == <<stIn, stNow, stOut, stPc, viewVars>>
listVars == <<pending, listing, listThreshold>>
relayVars == <<relay, proc, lastPost, relayCmds, posted, listVars, keyLoads>>
pureVars == <<dgIn, dgOut, sgIn, sgOut, prIn, prOut>>
vars == <<ledgerVars, cfgVars, refillVars, statusVars, relayVars, pureVars>>

\* ------------------------------------------------------------------------
\* Commitments and signatures (agent-treasury-propose.mjs, execSafeTx)
\* ------------------------------------------------------------------------
zeroAddress == "0x0"
SAFE_TX_TYPEHASH == "SafeTx"
DomainSeparator == <<"domain", "base", "safe">>

\* keccak256: collision resistant, modelled as an injective tagging.
keccak256(x) == <<"keccak", x>>

\* The struct hashed without its operation field.
computeSafeTxHash_NoOperation(domainSeparator, txData) ==
  keccak256(<<"0x1901", domainSeparator,
              keccak256(<<SAFE_TX_TYPEHASH, txData.to, txData.value, keccak256(txData.data),
                          0, 0, 0, zeroAddress, zeroAddress, txData.nonce>>)>>)

\* computeSafeTxHash(domainSeparator, txData): EIP-712, the payload hashed
\* before inclusion, the fee fields zero.
computeSafeTxHash(domainSeparator, txData) ==
  keccak256(<<"0x1901", domainSeparator,
              keccak256(<<SAFE_TX_TYPEHASH, txData.to, txData.value, keccak256(txData.data),
                          txData.operation, 0, 0, 0, zeroAddress, zeroAddress,
                          txData.nonce>>)>>)

\* The recovery byte the signer's key yields (27 or 28), fixed per key here.
RawV(account) == IF account = Agent THEN 27 ELSE 28

\* A signature as bytes: rs stands for the 64 bytes of r and s, tail is the
\* sequence of the bytes from index 64 on (one byte, v, in a 65-byte
\* signature).
SigByteLength(sig) == 64 + Len(sig.tail)

\* account.signMessage({ message: { raw } }): a 65-byte signature over the
\* prefixed message, deterministic per key and message.
signMessage(account, raw) ==
  [rs |-> <<account, <<"eip191", raw>>>>, tail |-> <<RawV(account)>>]

\* sigBytes[64] += 4 on a Uint8Array: the byte at index 64 wraps at 256; on
\* an array of 64 bytes the index is out of range and the write is dropped.
OffsetRecoveryByte(sigBytes) ==
  IF Len(sigBytes.tail) >= 1
  THEN [sigBytes EXCEPT !.tail[1] = (@ + 4) % 256]
  ELSE sigBytes

\* The signature returned without the recovery byte adjusted.
signSafeTxHash_NoOffset(account, safeTxHash) == signMessage(account, safeTxHash)

\* signSafeTxHash: sign the raw hash, then adjust the recovery byte.
signSafeTxHash(account, safeTxHash) == OffsetRecoveryByte(signMessage(account, safeTxHash))

\* execSafeTx: the same signing inline, account.signMessage on the raw hash
\* and sigBytes[64] += 4.
execSafeTxSignature(account, safeTxHash) == OffsetRecoveryByte(signMessage(account, safeTxHash))

\* The signer a signature recovers to for a commitment: only 65 bytes are a
\* signature; v 31/32 is checked against the prefixed message, v 27/28
\* against the raw commitment.
RecoverSigner(sig, h) ==
  IF Len(sig.tail) # 1 THEN "invalid"
  ELSE IF sig.tail[1] \in {31, 32}
  THEN IF sig.rs[2] = <<"eip191", h>> /\ sig.tail[1] - 4 = RawV(sig.rs[1])
       THEN sig.rs[1] ELSE "unknown"
  ELSE IF sig.tail[1] \in {27, 28}
  THEN IF sig.rs[2] = <<"raw", h>> /\ sig.tail[1] = RawV(sig.rs[1])
       THEN sig.rs[1] ELSE "unknown"
  ELSE "invalid"

\* ------------------------------------------------------------------------
\* Ledger: the AllowanceModule's allowance tuple and its operations
\* ------------------------------------------------------------------------
NoAllowance == [amount |-> 0, spent |-> 0, resetTimeMin |-> 0, lastResetMin |-> 0, nonce |-> 0]

\* A reset is due when now >= lastResetMin + resetTimeMin (interval 0: never).
ResetDue(al, now) == al.resetTimeMin > 0 /\ now >= al.lastResetMin + al.resetTimeMin

\* The allowance as the module loads it for a write: a due reset is applied,
\* with lastResetMin advanced in whole intervals (no early reset).
LedgerLoadAllowance(al, now) ==
  IF ResetDue(al, now)
  THEN [al EXCEPT !.spent = 0,
                  !.lastResetMin = now - ((now - al.lastResetMin) % al.resetTimeMin)]
  ELSE al

\* getTokenAllowance: the stored tuple [amount, spent, resetTimeMin, lastResetMin, nonce].
LedgerGetTokenAllowance(al) == al

\* setAllowance(delegate, token, amount, resetTimeMin, resetBaseMin = 0)
LedgerSetAllowance(al, amount, resetTimeMin, now) ==
  LET l == LedgerLoadAllowance(al, now) IN
  [l EXCEPT !.amount = amount,
            !.resetTimeMin = resetTimeMin,
            !.lastResetMin = IF l.lastResetMin = 0 THEN now ELSE l.lastResetMin,
            !.nonce = IF l.nonce = 0 THEN 1 ELSE l.nonce]

\* The module accepting any positive amount.
LedgerTransferAllowed_NoCap(al, amount, now) == amount > 0

\* executeAllowanceTransfer is accepted only if the new spent amount stays
\* within the granted amount of the (possibly just reset) period.
LedgerTransferAllowed(al, amount, now) ==
  LET l == LedgerLoadAllowance(al, now) IN
  amount > 0 /\ l.spent + amount <= l.amount

LedgerExecuteAllowanceTransfer(al, amount, now) ==
  LET l == LedgerLoadAllowance(al, now) IN
  [l EXCEPT !.spent = l.spent + amount, !.nonce = l.nonce + 1]

\* A Safe that executes on one owner signature whatever its threshold.
LedgerExecAccepts_AnyThreshold(signer) == signer \in owners

\* Safe.execTransaction with one owner signature: accepted only if that one
\* signature meets the threshold in force and the signer is an owner.
LedgerExecAccepts(signer) == threshold <= 1 /\ signer \in owners

\* ------------------------------------------------------------------------
\* Values the other specifications hold fixed
\* ------------------------------------------------------------------------
NoDeployArgs == [dryRun |-> FALSE, threshold |-> 0]

\* No configure run and no deploy run has started.
CfgIdleRun ==
  /\ cfgPc = "idle" /\ cfgArgs = [dryRun |-> FALSE, mor |-> 0, eth |-> 0, reset |-> 0]
  /\ cfgThreshold = 0 /\ cfgModuleEnabled = FALSE /\ cfgLog = <<>> /\ cfgRuns = 0
  /\ cfgPrev = "none" /\ cfgAfterFull = FALSE /\ cfgEnv = 0
  /\ cfgFlight = {} /\ rpcNonce = 0 /\ cfgSettled = FALSE
  /\ cfgOrphans = {} /\ applied = {} /\ cfgAfterKill = FALSE
  /\ depPc = "idle" /\ depArgs = NoDeployArgs

CfgIdle == CfgIdleRun /\ safeAddress = "safe" /\ rpcLagBounded = FALSE

RefillIdle ==
  /\ refillPc = "idle" /\ refillCfg = [a \in Assets |-> [low |-> 0, amount |-> 0]]
  /\ balance = [a \in Assets |-> 0] /\ refillRead = [a \in Assets |-> 0]
  /\ refillRuns = 0 /\ spends = 0 /\ pulls = <<>>
  /\ pulledAt = [a \in Assets |-> [m \in 1..MaxTime |-> 0]]
  /\ lastEv = [kind |-> "none", asset |-> MOR, status |-> "none"]
  /\ pullFlight = {}

\* A field of result that has not been assigned.
Absent == [set |-> FALSE]
\* const result = {};
NoResult == [safe |-> Absent, balances |-> Absent, pendingTransactions |-> Absent,
             refillDaemon |-> Absent]

ViewIdle == viewPc = "idle" /\ viewResult = NoResult /\ viewFaults = {}

StatusIdle ==
  /\ stIn = [a \in Assets |-> NoAllowance]
  /\ stNow = 0 /\ stOut = <<>> /\ stPc = "idle"
  /\ ViewIdle

NoPost == [owner |-> "none", kind |-> "none", status |-> 0, result |-> "none", outcome |-> "none"]

PureIdle ==
  /\ dgIn = <<>> /\ dgOut = <<>> /\ sgIn = <<>> /\ sgOut = <<>>
  /\ prIn = <<>> /\ prOut = <<>>

RelayIdle ==
  /\ relay = <<>> /\ proc = [o \in Owners |-> [pc |-> "idle"]]
  /\ lastPost = NoPost /\ relayCmds = 0 /\ posted = {}
  /\ pending = <<>> /\ listing = <<>> /\ listThreshold = 0
  /\ keyLoads = {}

\* ------------------------------------------------------------------------
\* agent-treasury-configure.mjs: the Execution Sequencer
\* ------------------------------------------------------------------------
MorAllowances == {3, 5}     \* --mor-allowance / MOR_DAILY_ALLOWANCE (default 50 MOR = 5)
EthAllowances == {5}        \* --eth-allowance / ETH_DAILY_ALLOWANCE (default 0.05 ETH = 5)
ResetIntervals == {2}       \* --reset-minutes, in ticks

CfgArgSets == [dryRun : BOOLEAN, mor : MorAllowances, eth : EthAllowances, reset : ResetIntervals]

\* The threshold guard letting a 2-of-n account through.
ThresholdTooHigh_OffByOne(t) == t > 2

\* TX 1 never submitted.
NeedsEnableModule_Never(enabled) == FALSE

\* TX 1 submitted whatever the flag read.
NeedsEnableModule_Always(enabled) == TRUE

\* if (!moduleEnabled) { ... enableModule ... } else "Skipping"
NeedsEnableModule(enabled) == ~enabled

\* if (threshold > 1n) { ... process.exit(1) }
ThresholdTooHigh(t) == t > 1

\* An ownership test any non-empty owner list passes.
IsOwner_AnyOwner(os) == os # {}

\* owners.some((o) => o.toLowerCase() === agentAddress.toLowerCase())
IsOwner(os) == Agent \in os

\* The delegate probe never finding the agent.
AlreadyDelegate_NoProbe(ds) == FALSE

\* delegates.some((d) => d.toLowerCase() === agentAddress.toLowerCase())
AlreadyDelegate(ds) == Agent \in ds

\* The receipts execSafeTx can come back with for a Safe transaction whose
\* inner call would succeed (innerOk) or not: "success", "reverted" (a
\* confirmed receipt with status reverted) or "threw" (writeContract or the
\* wait raised, which main().catch turns into exit 1).  A transaction the
\* ledger must reject never succeeds; one it would accept can still fail
\* (stale nonce read, gas).
execSafeTxOutcomes(innerOk) ==
  IF LedgerExecAccepts(Agent) /\ innerOk
  THEN {"success", "reverted", "threw"}
  ELSE {"reverted", "threw"}

\* The log entry of a confirmed (or failed) Safe transaction.
CfgLogged(f, status) ==
  Append(cfgLog, [step |-> f.step, status |-> status, nonce |-> f.nonce,
                  chainNonce |-> f.chainNonce, settled |-> f.settled,
                  threshold |-> threshold])

CfgFrame == UNCHANGED <<refillVars, statusVars, relayVars, pureVars>>

\* The two setAllowance calls with their tokens exchanged.
CfgStepTx_SwappedTokens(step, args) ==
  CASE step = "enableModule" ->
         [to |-> "safe", data |-> <<"enableModule", "AllowanceModule">>]
    [] step = "addDelegate" ->
         [to |-> "AllowanceModule", data |-> <<"addDelegate", Agent>>]
    [] step = "setMorAllowance" ->
         [to |-> "AllowanceModule", data |-> <<"setAllowance", Agent, ETH, args.mor, args.reset, 0>>]
    [] step = "setEthAllowance" ->
         [to |-> "AllowanceModule", data |-> <<"setAllowance", Agent, MOR, args.eth, args.reset, 0>>]

\* The target and calldata of each step (encodeFunctionData).
CfgStepTx(step, args) ==
  CASE step = "enableModule" ->
         [to |-> "safe", data |-> <<"enableModule", "AllowanceModule">>]
    [] step = "addDelegate" ->
         [to |-> "AllowanceModule", data |-> <<"addDelegate", Agent>>]
    [] step = "setMorAllowance" ->
         [to |-> "AllowanceModule", data |-> <<"setAllowance", Agent, MOR, args.mor, args.reset, 0>>]
    [] step = "setEthAllowance" ->
         [to |-> "AllowanceModule", data |-> <<"setAllowance", Agent, ETH, args.eth, args.reset, 0>>]

CfgStepOrder == <<"enableModule", "addDelegate", "setMorAllowance", "setEthAllowance">>
StepIndex(step) == CHOOSE i \in 1..4 : CfgStepOrder[i] = step

\* The inline hash leaving the operation out of the hashed fields.
execSafeTxHash_NoOperation(domainSeparator, to, data, operation, nonce) ==
  keccak256(<<"0x1901", domainSeparator,
              keccak256(<<SAFE_TX_TYPEHASH, to, 0, keccak256(data), 0, 0, 0, 0,
                          zeroAddress, zeroAddress, nonce>>)>>)

\* execSafeTx: the arguments of the execTransaction call.
execSafeTxArgs(to, data, operation, adjustedSig) ==
  [to |-> to, value |-> 0, data |-> data, operation |-> operation,
   safeTxGas |-> 0, baseGas |-> 0, gasPrice |-> 0,
   gasToken |-> zeroAddress, refundReceiver |-> zeroAddress, signatures |-> adjustedSig]

\* execSafeTx: the hash it computes inline, value 0 and the fee fields zero.
execSafeTxHash(domainSeparator, to, data, operation, nonce) ==
  keccak256(<<"0x1901", domainSeparator,
              keccak256(<<SAFE_TX_TYPEHASH, to, 0, keccak256(data), operation, 0, 0, 0,
                          zeroAddress, zeroAddress, nonce>>)>>)

\* execSafeTx up to writeContract: the nonce is read once, from the RPC, and
\* used as read; chainNonce and settled record the ledger's nonce at that
\* moment and whether settle() ran since the last receipt.
execSafeTxRequest(step, args) ==
  LET tx == CfgStepTx(step, args)
      nonce == rpcNonce
      safeTxHash == execSafeTxHash(DomainSeparator, tx.to, tx.data, 0, nonce)
  IN [step |-> step, to |-> tx.to, data |-> tx.data, operation |-> 0, nonce |-> nonce,
      safeTxHash |-> safeTxHash, signature |-> execSafeTxSignature(Agent, safeTxHash),
      chainNonce |-> safeNonce, settled |-> cfgSettled, run |-> cfgRuns]

\* A Safe that accepts a signature over the hash at any nonce.
LedgerExecSignatureOk_AnyNonce(f) ==
  \E n \in 0..safeNonce :
    RecoverSigner(f.signature,
                  computeSafeTxHash(DomainSeparator,
                                    [to |-> f.to, value |-> 0, data |-> f.data,
                                     operation |-> f.operation, nonce |-> n])) \in owners

\* Safe.execTransaction: the signature must recover to an owner for the hash
\* of the transaction at the Safe's own nonce.
LedgerExecSignatureOk(f) ==
  RecoverSigner(f.signature,
                computeSafeTxHash(DomainSeparator,
                                  [to |-> f.to, value |-> 0, data |-> f.data,
                                   operation |-> f.operation, nonce |-> safeNonce])) \in owners

\* The next step submitted without waiting for the receipt.
AwaitReceipt_FireAndForget(waitPc, nextPc) == nextPc

\* await publicClient.waitForTransactionReceipt: the run stays at the
\* transaction until its receipt is there.
AwaitReceipt(waitPc, nextPc) == waitPc

\* A dry run that goes on to the transactions.
CfgAfterChecks_IgnoreDryRun(dryRun) == "tx1"

\* if (dryRun) { ...log the plan...; return; }
CfgAfterChecks(dryRun) == IF dryRun THEN "dry" ELSE "tx1"

\* main(): lines 377-469: SAFE_ADDRESS must be set; read the state, check
\* threshold and ownership, dry run.
ConfigureStart(args) ==
  /\ cfgPc \in {"idle", "done", "dry", "exit1", "killed"}
  /\ depPc # "sent"
  /\ cfgRuns < MaxRuns
  /\ cfgRuns' = cfgRuns + 1
  /\ cfgArgs' = args
  /\ cfgThreshold' = threshold
  /\ cfgModuleEnabled' = moduleEnabled
  /\ cfgLog' = <<>>
  /\ cfgAfterFull' = (cfgPrev = "full")
  /\ cfgAfterKill' = (cfgPc = "killed")
  /\ cfgPrev' = "other"
  /\ cfgPc' = IF safeAddress = "unset" THEN "exit1"
              ELSE IF ThresholdTooHigh(threshold) THEN "exit1"
              ELSE IF ~IsOwner(owners) THEN "exit1"
              ELSE CfgAfterChecks(args.dryRun)
  /\ cfgFlight' = {}
  /\ cfgSettled' = TRUE
  /\ UNCHANGED <<ledgerVars, cfgEnv, rpcNonce, cfgOrphans, applied, rpcLagBounded, depVars>>
  /\ CfgFrame

\* TX 1: enableModule, skipped when the module was enabled at the start.
ConfigureTx1 ==
  /\ cfgPc = "tx1"
  /\ IF NeedsEnableModule(cfgModuleEnabled)
     THEN /\ cfgFlight' = cfgFlight \cup {execSafeTxRequest("enableModule", cfgArgs)}
          /\ cfgPc' = AwaitReceipt("wait1", "settle1")
     ELSE /\ cfgPc' = "settle1"
          /\ UNCHANGED cfgFlight
  /\ UNCHANGED <<ledgerVars, rpcNonce, cfgSettled, cfgConc, depVars>>
  /\ UNCHANGED <<cfgArgs, cfgThreshold, cfgModuleEnabled, cfgLog, cfgRuns, cfgPrev, cfgAfterFull,
                 cfgEnv>>
  /\ CfgFrame

\* Whether the replica has caught up when a settle() ends: it has when its
\* lag is bounded by the settle delay; otherwise it may still be behind.
SettleCovers(bounded) == bounded => rpcNonce = safeNonce

\* settle(): the fixed wait between steps.
ConfigureSettle ==
  /\ cfgPc \in {"settle1", "settle2", "settle3"}
  /\ SettleCovers(rpcLagBounded)
  /\ cfgPc' = CASE cfgPc = "settle1" -> "tx2"
                [] cfgPc = "settle2" -> "tx3"
                [] cfgPc = "settle3" -> "tx4"
  /\ cfgSettled' = TRUE
  /\ UNCHANGED <<ledgerVars, cfgArgs, cfgThreshold, cfgModuleEnabled, cfgLog, cfgRuns, cfgPrev,
                 cfgAfterFull, cfgEnv, cfgFlight, rpcNonce, cfgConc, depVars>>
  /\ CfgFrame

\* TX 2: addDelegate, skipped when getDelegates already lists the agent.
ConfigureTx2 ==
  /\ cfgPc = "tx2"
  /\ IF ~AlreadyDelegate(delegates)
     THEN /\ cfgFlight' = cfgFlight \cup {execSafeTxRequest("addDelegate", cfgArgs)}
          /\ cfgPc' = AwaitReceipt("wait2", "settle2")
     ELSE /\ cfgPc' = "tx3"
          /\ UNCHANGED cfgFlight
  /\ UNCHANGED <<ledgerVars, rpcNonce, cfgSettled, cfgConc, depVars>>
  /\ UNCHANGED <<cfgArgs, cfgThreshold, cfgModuleEnabled, cfgLog, cfgRuns, cfgPrev, cfgAfterFull,
                 cfgEnv>>
  /\ CfgFrame

\* TX 4 submitted right after the TX 3 receipt, without settle().
AfterTx3_NoSettle(st) == IF st = "threw" THEN "exit1" ELSE "tx4"

\* Where main() goes after the MOR setAllowance receipt: the status is
\* logged and the run continues to settle() whatever the status.
AfterTx3(st) == IF st = "threw" THEN "exit1" ELSE "settle3"

\* TX 3: setAllowance(agent, MOR, amount, reset, 0): no probe.
ConfigureTx3 ==
  /\ cfgPc = "tx3"
  /\ cfgFlight' = cfgFlight \cup {execSafeTxRequest("setMorAllowance", cfgArgs)}
  /\ cfgPc' = AwaitReceipt("wait3", "settle3")
  /\ UNCHANGED <<ledgerVars, rpcNonce, cfgSettled, cfgConc, depVars>>
  /\ UNCHANGED <<cfgArgs, cfgThreshold, cfgModuleEnabled, cfgLog, cfgRuns, cfgPrev, cfgAfterFull,
                 cfgEnv>>
  /\ CfgFrame

\* TX 4: setAllowance(agent, ETH, amount, reset, 0): no probe.
ConfigureTx4 ==
  /\ cfgPc = "tx4"
  /\ cfgFlight' = cfgFlight \cup {execSafeTxRequest("setEthAllowance", cfgArgs)}
  /\ cfgPc' = AwaitReceipt("wait4", "verify")
  /\ UNCHANGED <<ledgerVars, rpcNonce, cfgSettled, cfgConc, depVars>>
  /\ UNCHANGED <<cfgArgs, cfgThreshold, cfgModuleEnabled, cfgLog, cfgRuns, cfgPrev, cfgAfterFull,
                 cfgEnv>>
  /\ CfgFrame

\* The step whose receipt the run is waiting for.
CfgWaitStep(pc) ==
  CASE pc = "wait1" -> "enableModule" [] pc = "wait2" -> "addDelegate"
    [] pc = "wait3" -> "setMorAllowance" [] pc = "wait4" -> "setEthAllowance"

\* Whether the inner call of a step would succeed on the ledger as it is.
CfgInnerOk(step) ==
  CASE step = "enableModule" -> ~moduleEnabled
    [] step = "addDelegate" -> TRUE
    [] step \in {"setMorAllowance", "setEthAllowance"} -> Agent \in delegates

\* A rejected step submitted again instead of ending the run.
AfterReceipt_Retry(step, st) ==
  CASE step = "enableModule" -> IF st = "success" THEN "settle1" ELSE "tx1"
    [] step = "addDelegate" -> IF st = "success" THEN "settle2" ELSE "tx2"
    [] step = "setMorAllowance" -> AfterTx3(st)
    [] step = "setEthAllowance" -> IF st = "threw" THEN "exit1" ELSE "verify"

\* TX 2 read right after the TX 1 receipt, without settle().
AfterReceipt_NoSettle(step, st) ==
  CASE step = "enableModule" -> IF st = "success" THEN "tx2" ELSE "exit1"
    [] step = "addDelegate" -> IF st = "success" THEN "settle2" ELSE "exit1"
    [] step = "setMorAllowance" -> AfterTx3(st)
    [] step = "setEthAllowance" -> IF st = "threw" THEN "exit1" ELSE "verify"

\* Where main() goes after a step's receipt (or after execSafeTx threw).
AfterReceipt(step, st) ==
  CASE step = "enableModule" -> IF st = "success" THEN "settle1" ELSE "exit1"
    [] step = "addDelegate" -> IF st = "success" THEN "settle2" ELSE "exit1"
    [] step = "setMorAllowance" -> AfterTx3(st)
    [] step = "setEthAllowance" -> IF st = "threw" THEN "exit1" ELSE "verify"

\* The ledger after the inner call of an executed Safe transaction, by
\* its calldata: Safe.enableModule, AllowanceModule.addDelegate and
\* AllowanceModule.setAllowance(delegate, token, amount, resetTimeMin, 0).
LedgerModuleAfter(data) ==
  IF data[1] = "enableModule" THEN TRUE ELSE moduleEnabled

LedgerDelegatesAfter(data) ==
  IF data[1] = "addDelegate" THEN delegates \cup {data[2]} ELSE delegates

LedgerAllowanceAfter(data) ==
  IF data[1] = "setAllowance" /\ data[2] = Agent
  THEN [allowance EXCEPT ![data[3]] = LedgerSetAllowance(@, data[4], data[5], nowMin)]
  ELSE allowance

\* The record of a Safe transaction that took effect: the nonce it consumed,
\* the nonce its commitment was built with, the signatures it carried, the
\* threshold in force, and whether a later run had started by then.
AppliedEntry(f) ==
  [step |-> f.step, run |-> f.run, nonce |-> safeNonce, txNonce |-> f.nonce,
   sigs |-> SigByteLength(f.signature) \div 65, threshold |-> threshold,
   late |-> cfgRuns > f.run]

\* Safe.execTransaction of the submitted transaction f with outcome st.
LedgerExecTransaction(f, st) ==
  /\ moduleEnabled' = IF st = "success" THEN LedgerModuleAfter(f.data) ELSE moduleEnabled
  /\ delegates' = IF st = "success" THEN LedgerDelegatesAfter(f.data) ELSE delegates
  /\ allowance' = IF st = "success" THEN LedgerAllowanceAfter(f.data) ELSE allowance
  /\ safeNonce' = IF st = "success" THEN safeNonce + 1 ELSE safeNonce
  /\ applied' = IF st = "success" THEN applied \cup {AppliedEntry(f)} ELSE applied
  /\ UNCHANGED <<threshold, owners, nowMin>>

\* The transaction is mined (or fails) and execSafeTx returns its receipt.
ConfigureReceipt ==
  /\ cfgPc \in {"wait1", "wait2", "wait3", "wait4"}
  /\ \E f \in cfgFlight :
       /\ f.step = CfgWaitStep(cfgPc)
       /\ \E st \in execSafeTxOutcomes(CfgInnerOk(f.step) /\ LedgerExecSignatureOk(f)) :
            /\ cfgLog' = CfgLogged(f, st)
            /\ cfgFlight' = cfgFlight \ {f}
            /\ LedgerExecTransaction(f, st)
            /\ cfgPc' = AfterReceipt(f.step, st)
  /\ cfgSettled' = FALSE
  /\ UNCHANGED <<rpcNonce, cfgOrphans, cfgAfterKill, rpcLagBounded, depVars>>
  /\ UNCHANGED <<cfgArgs, cfgThreshold, cfgModuleEnabled, cfgRuns, cfgPrev, cfgAfterFull, cfgEnv>>
  /\ CfgFrame

\* The caller terminates the process while the run is under way; a
\* transaction already handed to the network stays in flight.
ConfigureKill ==
  /\ cfgPc \in {"tx1", "wait1", "settle1", "tx2", "wait2", "settle2", "tx3", "wait3",
                "settle3", "tx4", "wait4", "verify"}
  /\ cfgRuns < MaxRuns   \* a run can still follow the terminated one
  /\ cfgPc' = "killed"
  /\ cfgOrphans' = cfgOrphans \cup cfgFlight
  /\ cfgFlight' = {}
  /\ cfgPrev' = "other"
  /\ UNCHANGED <<ledgerVars, cfgArgs, cfgThreshold, cfgModuleEnabled, cfgLog, cfgRuns,
                 cfgAfterFull, cfgEnv, rpcNonce, cfgSettled, applied, cfgAfterKill, rpcLagBounded,
                 depVars>>
  /\ CfgFrame

\* A transaction of a terminated run is mined, or dropped by the network.
OrphanMined ==
  /\ \E f \in cfgOrphans :
       /\ cfgOrphans' = cfgOrphans \ {f}
       /\ \E st \in execSafeTxOutcomes(CfgInnerOk(f.step) /\ LedgerExecSignatureOk(f)) :
            LedgerExecTransaction(f, st)
  /\ cfgPrev' = "other"
  /\ cfgAfterFull' = FALSE
  /\ UNCHANGED <<cfgPc, cfgArgs, cfgThreshold, cfgModuleEnabled, cfgLog, cfgRuns, cfgEnv,
                 cfgAux, cfgAfterKill, rpcLagBounded, depVars>>
  /\ CfgFrame

\* The read replica catches up with the chain.
ReplicaSync ==
  /\ rpcNonce # safeNonce
  /\ rpcNonce' = safeNonce
  /\ UNCHANGED <<ledgerVars, cfgPc, cfgArgs, cfgThreshold, cfgModuleEnabled, cfgLog, cfgRuns,
                 cfgPrev, cfgAfterFull, cfgEnv, cfgFlight, cfgSettled, cfgConc, depVars>>
  /\ CfgFrame

\* Every step of the run either succeeded or was skipped as already satisfied.
CfgAllStepsOk == \A i \in 1..Len(cfgLog) : cfgLog[i].status = "success"

\* Verify: three reads and "Configuration complete".
ConfigureVerify ==
  /\ cfgPc = "verify"
  /\ cfgPc' = "done"
  /\ cfgPrev' = IF CfgAllStepsOk THEN "full" ELSE "other"
  /\ UNCHANGED <<ledgerVars, cfgArgs, cfgThreshold, cfgModuleEnabled, cfgLog, cfgRuns,
                 cfgAfterFull, cfgEnv, cfgAux, cfgConc, depVars>>
  /\ CfgFrame

\* Another party's executed changeThreshold transaction.
EnvChangeThreshold ==
  /\ cfgEnv < MaxEnvChanges
  /\ \E t \in (1..Cardinality(owners)) \ {threshold} : threshold' = t
  /\ safeNonce' = safeNonce + 1
  /\ cfgEnv' = cfgEnv + 1
  /\ cfgPrev' = "other"
  /\ cfgAfterFull' = FALSE
  /\ applied' = applied \cup {[step |-> "changeThreshold", run |-> 0, nonce |-> safeNonce,
                                txNonce |-> safeNonce, sigs |-> threshold,
                                threshold |-> threshold, late |-> FALSE]}
  /\ UNCHANGED <<owners, moduleEnabled, delegates, allowance, nowMin>>
  /\ UNCHANGED <<cfgPc, cfgArgs, cfgThreshold, cfgModuleEnabled, cfgLog, cfgRuns, cfgAux>>
  /\ UNCHANGED <<cfgOrphans, cfgAfterKill, rpcLagBounded, depVars>>
  /\ CfgFrame

CfgTick ==
  /\ nowMin < MaxCfgTime
  /\ nowMin' = nowMin + 1
  /\ UNCHANGED <<threshold, owners, moduleEnabled, safeNonce, delegates, allowance>>
  /\ UNCHANGED cfgVars
  /\ CfgFrame

\* --threshold values passed to the deploy script (default 1)
DeployThresholds == {1, 2, 3}

DeployArgSets == [dryRun : BOOLEAN, threshold : DeployThresholds]

\* if (dryRun) { ...log the initializer...; return; } else the
\* createProxyWithNonce transaction is sent and its receipt awaited.
DeployAfterChecks(dryRun) == IF dryRun THEN "dry" ELSE "sent"

DeployFrame ==
  UNCHANGED <<cfgPc, cfgArgs, cfgThreshold, cfgModuleEnabled, cfgLog, cfgRuns, cfgPrev,
              cfgAfterFull, cfgEnv, cfgAux, cfgConc, refillVars, statusVars, relayVars,
              pureVars>>

\* main() of the deploy script up to the transaction: the owners are the
\* human and the agent, the threshold must be within 1..2, the agent must
\* hold gas (funded), and a dry run returns before the wallet client exists.
DeployStart(args, funded) ==
  /\ safeAddress = "unset"
  /\ depPc \in {"idle", "dry", "exit1"}
  /\ cfgPc \in {"idle", "exit1"}
  /\ depArgs' = args
  /\ depPc' = IF args.threshold < 1 \/ args.threshold > Cardinality(Owners) THEN "exit1"
              ELSE IF ~funded THEN "exit1"
              ELSE DeployAfterChecks(args.dryRun)
  /\ UNCHANGED <<ledgerVars, safeAddress>>
  /\ DeployFrame

\* The receipt of createProxyWithNonce: on success the Safe exists with the
\* two owners and the threshold of the initializer, and its address is what
\* the operator puts in .env as SAFE_ADDRESS.
DeployReceipt ==
  /\ depPc = "sent"
  /\ \E st \in {"success", "reverted"} :
       IF st = "success"
       THEN /\ depPc' = "done"
            /\ safeAddress' = "safe"
            /\ owners' = Owners
            /\ threshold' = depArgs.threshold
       ELSE /\ depPc' = "exit1"
            /\ UNCHANGED <<safeAddress, owners, threshold>>
  /\ UNCHANGED <<depArgs, moduleEnabled, safeNonce, delegates, allowance, nowMin>>
  /\ DeployFrame

\* No Safe yet (the deploy script creates it), or a Safe created by other
\* means that the human alone owns.
CfgInit ==
  /\ \/ safeAddress = "unset" /\ owners = {} /\ threshold = 0
     \/ safeAddress = "safe" /\ owners = {Human} /\ threshold = 1
  /\ moduleEnabled = FALSE
  /\ safeNonce = 0
  /\ delegates = {}
  /\ allowance = [a \in Assets |-> NoAllowance]
  /\ nowMin = 1
  /\ rpcLagBounded = FALSE
  /\ CfgIdleRun /\ RefillIdle /\ StatusIdle /\ RelayIdle /\ PureIdle

CfgNext ==
  \/ \E args \in CfgArgSets : ConfigureStart(args)
  \/ ConfigureTx1
  \/ ConfigureSettle
  \/ ConfigureTx2
  \/ ConfigureTx3
  \/ ConfigureTx4
  \/ ConfigureReceipt
  \/ ConfigureVerify
  \/ \E args \in DeployArgSets : \E funded \in BOOLEAN : DeployStart(args, funded)
  \/ DeployReceipt
  \/ ReplicaSync
  \/ EnvChangeThreshold
  \/ CfgTick

SpecCfg == CfgInit /\ [][CfgNext]_vars

\* SpecResume: configure runs that the caller can terminate at any point,
\* on a freshly deployed 1-of-2 Safe, with the transactions of terminated
\* runs still in flight and another party changing the threshold.
ResumeInit ==
  /\ safeAddress = "safe" /\ owners = Owners /\ threshold = 1
  /\ moduleEnabled = FALSE
  /\ safeNonce = 0
  /\ delegates = {}
  /\ allowance = [a \in Assets |-> NoAllowance]
  /\ nowMin = 1
  /\ rpcLagBounded = FALSE
  /\ CfgIdleRun /\ RefillIdle /\ StatusIdle /\ RelayIdle /\ PureIdle

ResumeNext ==
  \/ \E args \in CfgArgSets : ConfigureStart(args)
  \/ ConfigureTx1
  \/ ConfigureSettle
  \/ ConfigureTx2
  \/ ConfigureTx3
  \/ ConfigureTx4
  \/ ConfigureReceipt
  \/ ConfigureVerify
  \/ ConfigureKill
  \/ OrphanMined
  \/ ReplicaSync
  \/ EnvChangeThreshold

SpecResume == ResumeInit /\ [][ResumeNext]_vars

\* SpecLag: configure runs as the account's only writer on a freshly deployed
\* 1-of-2 Safe, against an RPC whose replica lag is within the settle delay
\* or not.
LagInit ==
  /\ safeAddress = "safe" /\ owners = Owners /\ threshold = 1
  /\ moduleEnabled = FALSE
  /\ safeNonce = 0
  /\ delegates = {}
  /\ allowance = [a \in Assets |-> NoAllowance]
  /\ nowMin = 1
  /\ rpcLagBounded \in BOOLEAN
  /\ CfgIdleRun /\ RefillIdle /\ StatusIdle /\ RelayIdle /\ PureIdle

LagNext ==
  \/ \E args \in CfgArgSets : ConfigureStart(args)
  \/ ConfigureTx1
  \/ ConfigureSettle
  \/ ConfigureTx2
  \/ ConfigureTx3
  \/ ConfigureTx4
  \/ ConfigureReceipt
  \/ ConfigureVerify
  \/ ReplicaSync

SpecLag == LagInit /\ [][LagNext]_vars

\* SpecTerm: configure runs whose own steps are taken eventually (every read
\* and every wait of the script returns) and whose submitted transactions
\* the ledger eventually answers; the replica and the other party are free.
TermRunStep ==
  \/ ConfigureTx1
  \/ ConfigureSettle
  \/ ConfigureTx2
  \/ ConfigureTx3
  \/ ConfigureTx4
  \/ ConfigureVerify

TermNext ==
  \/ \E args \in CfgArgSets : ConfigureStart(args)
  \/ TermRunStep
  \/ ConfigureReceipt
  \/ ReplicaSync
  \/ EnvChangeThreshold

SpecTerm ==
  /\ ResumeInit /\ [][TermNext]_vars
  /\ WF_vars(TermRunStep)
  /\ WF_vars(ConfigureReceipt)

\* ------------------------------------------------------------------------
\* Claims about the Sequencer
\* ------------------------------------------------------------------------
CfgSteps == [i \in 1..Len(cfgLog) |-> cfgLog[i].step]

C2_AbortOnRevert ==
  \A i \in 1..Len(cfgLog) : cfgLog[i].status = "reverted" => i = Len(cfgLog)

\* C3: a run that read a threshold above 1 ends in the error exit and has made
\* no write; every write of a run was made under a threshold read as 1.
C3_SingleSignerOnlyAtThresholdOne ==
  /\ (cfgRuns > 0 /\ cfgThreshold > 1) => (cfgPc = "exit1" /\ cfgLog = <<>>)
  /\ cfgLog # <<>> => cfgThreshold = 1

C3_Witness == cfgRuns > 0 /\ cfgThreshold = 2 /\ cfgPc = "exit1" /\ cfgLog = <<>>

\* ------------------------------------------------------------------------
\* agent-treasury-refill.mjs: autonomous pulls by the delegate
\* ------------------------------------------------------------------------
MorRefillAmounts == {3, 6}  \* MOR_REFILL_AMOUNT (default 30 MOR = 3)
EthRefillAmounts == {3}     \* ETH_REFILL_AMOUNT (default 0.03 ETH = 3)
MorLowThresholds == {2}     \* MOR_LOW_THRESHOLD (default 20 MOR = 2)
EthLowThresholds == {1}     \* ETH_LOW_THRESHOLD (default 0.01 ETH = 1)

AllowanceAmounts == [a \in Assets |-> IF a = MOR THEN MorAllowances ELSE EthAllowances]

\* The remaining allowance of the policy arithmetic: granted minus spent,
\* never negative, with spent taken as 0 when a reset is due.
PolicyRemaining(al, now) ==
  IF ResetDue(al, now) THEN al.amount
  ELSE IF al.spent > al.amount THEN 0 ELSE al.amount - al.spent

\* The refill job checking the allowance before it pulls.
RefillWanted_LocalCheck(a) ==
  /\ refillRead[a] < refillCfg[a].low
  /\ refillCfg[a].amount <= PolicyRemaining(allowance[a], nowMin)

\* The refill job pulling at the threshold as well as below it.
RefillWanted_AtOrBelow(a) == refillRead[a] <= refillCfg[a].low

\* if (morBalance < MOR_LOW_THRESHOLD) / if (ethBalance < ETH_LOW_THRESHOLD)
RefillWanted(a) == refillRead[a] < refillCfg[a].low

\* The token argument of a pull: MOR_TOKEN, or address(0) for native ETH.
PullToken(a) == IF a = ETH THEN zeroAddress ELSE MOR

\* A pull that carries a signature of the hot wallet over its arguments.
PullArgs_Signed(a) ==
  [safe |-> "safe", token |-> PullToken(a), to |-> Agent,
   amount |-> refillCfg[a].amount, paymentToken |-> zeroAddress, payment |-> 0,
   delegate |-> Agent,
   signature |-> signSafeTxHash(Agent, keccak256(<<PullToken(a), refillCfg[a].amount>>)).tail]

\* args of executeAllowanceTransfer: safe, token, to, amount, paymentToken,
\* payment, delegate, signature ("0x": the empty byte string).
PullArgs(a) ==
  [safe |-> "safe", token |-> PullToken(a), to |-> Agent,
   amount |-> refillCfg[a].amount, paymentToken |-> zeroAddress, payment |-> 0,
   delegate |-> Agent, signature |-> <<>>]

\* The outcomes of walletClient.writeContract(executeAllowanceTransfer) and
\* the wait for its receipt: "success", "reverted" (receipt) or "failed"
\* (the call threw and the catch logged it).
PullOutcomes(a) ==
  IF /\ moduleEnabled /\ Agent \in delegates
     /\ LedgerTransferAllowed(allowance[a], refillCfg[a].amount, nowMin)
  THEN {"success", "reverted", "failed"}
  ELSE {"reverted", "failed"}

RefillFrame == UNCHANGED <<cfgVars, statusVars, relayVars, pureVars>>

\* main(): lines 141-179: the balances are read once, at the start.
RefillStart ==
  /\ refillPc \in {"idle", "done"}
  /\ refillRuns < MaxRefills
  /\ refillRuns' = refillRuns + 1
  /\ refillRead' = balance
  /\ refillPc' = "mor"
  /\ pulls' = <<>>
  /\ UNCHANGED <<ledgerVars, refillCfg, balance, spends, pulledAt, lastEv, pullFlight>>
  /\ RefillFrame

\* One refill block: the pull is submitted whenever the balance read is low.
RefillPull(a, next) ==
  /\ IF RefillWanted(a)
     THEN \E st \in PullOutcomes(a) :
            /\ pulls' = Append(pulls, [asset |-> a, amount |-> refillCfg[a].amount,
                                       remaining |-> PolicyRemaining(allowance[a], nowMin),
                                       args |-> PullArgs(a), status |-> st])
            /\ pulledAt' = IF st = "success"
                           THEN [pulledAt EXCEPT ![a][nowMin] = @ + refillCfg[a].amount]
                           ELSE pulledAt
            /\ lastEv' = [kind |-> "pull", asset |-> a, status |-> st]
            /\ allowance' = IF st = "success"
                            THEN [allowance EXCEPT ![a] =
                                    LedgerExecuteAllowanceTransfer(@, refillCfg[a].amount, nowMin)]
                            ELSE allowance
            /\ balance' = IF st = "success"
                          THEN [balance EXCEPT ![a] = @ + refillCfg[a].amount]
                          ELSE balance
     ELSE UNCHANGED <<pulls, pulledAt, lastEv, allowance, balance>>
  /\ refillPc' = next
  /\ UNCHANGED <<threshold, owners, moduleEnabled, safeNonce, delegates, nowMin>>
  /\ UNCHANGED <<refillCfg, refillRead, refillRuns, spends, pullFlight>>
  /\ RefillFrame

\* --- MOR refill --- lines 181-210
RefillMOR == refillPc = "mor" /\ RefillPull(MOR, "eth")

\* --- ETH refill --- lines 212-241
RefillETH == refillPc = "eth" /\ RefillPull(ETH, "done")

\* The hot wallet spends from its balance (staking, gas).
EnvSpend(a) ==
  /\ spends < MaxSpend
  /\ balance[a] > 0
  /\ balance' = [balance EXCEPT ![a] = @ - 1]
  /\ spends' = spends + 1
  /\ UNCHANGED <<ledgerVars, refillPc, refillCfg, refillRead, refillRuns, pulls, pulledAt, lastEv,
                 pullFlight>>
  /\ RefillFrame

\* A configure run's setAllowance taking effect (TX 3 for MOR, TX 4 for ETH).
EnvSetAllowance(a, amount, reset) ==
  /\ Agent \in delegates
  /\ allowance' = [allowance EXCEPT ![a] = LedgerSetAllowance(@, amount, reset, nowMin)]
  /\ allowance' # allowance
  /\ lastEv' = [kind |-> "set", asset |-> a, status |-> "success"]
  /\ UNCHANGED <<threshold, owners, moduleEnabled, safeNonce, delegates, nowMin>>
  /\ UNCHANGED <<refillPc, refillCfg, balance, refillRead, refillRuns, spends, pulls, pulledAt,
                 pullFlight>>
  /\ RefillFrame

RefillTick ==
  /\ nowMin < MaxTime
  /\ nowMin' = nowMin + 1
  /\ UNCHANGED <<threshold, owners, moduleEnabled, safeNonce, delegates, allowance>>
  /\ UNCHANGED refillVars
  /\ RefillFrame

RefillInit ==
  /\ owners = Owners /\ threshold = 1 /\ moduleEnabled = TRUE /\ safeNonce = 0
  /\ delegates = {Agent}
  /\ allowance = [a \in Assets |-> NoAllowance]
  /\ nowMin = 1
  /\ refillPc = "idle"
  /\ \E ml \in MorLowThresholds, ma \in MorRefillAmounts,
        el \in EthLowThresholds, ea \in EthRefillAmounts :
       refillCfg = [a \in Assets |-> IF a = MOR THEN [low |-> ml, amount |-> ma]
                                                ELSE [low |-> el, amount |-> ea]]
  /\ balance \in [Assets -> 0..1]
  /\ refillRead = [a \in Assets |-> 0]
  /\ refillRuns = 0 /\ spends = 0 /\ pulls = <<>>
  /\ pulledAt = [a \in Assets |-> [m \in 1..MaxTime |-> 0]]
  /\ lastEv = [kind |-> "none", asset |-> MOR, status |-> "none"]
  /\ pullFlight = {}
  /\ CfgIdle /\ StatusIdle /\ RelayIdle /\ PureIdle

RefillNext ==
  \/ RefillStart
  \/ RefillMOR
  \/ RefillETH
  \/ \E a \in Assets : EnvSpend(a)
  \/ \E a \in Assets : \E amount \in AllowanceAmounts[a], reset \in ResetIntervals :
       EnvSetAllowance(a, amount, reset)
  \/ RefillTick

SpecRefill == RefillInit /\ [][RefillNext]_vars

\* ---- the refill blocks with the submission and the receipt as two steps
\* The ETH block entered without waiting for the MOR receipt.
PullAwait_FireAndForget(waitPc, nextPc) == nextPc

\* await publicClient.waitForTransactionReceipt({ hash: tx }): the run stays
\* in the block until the receipt is there (or the call threw).
PullAwait(waitPc, nextPc) == waitPc

PullWaitPc(a) == IF a = MOR THEN "morWait" ELSE "ethWait"
PullNextPc(a) == IF a = MOR THEN "eth" ELSE "done"

\* The if of a block and walletClient.writeContract: the pull is handed to
\* the network when the balance read at the start is low.
PullSubmit(a) ==
  /\ refillPc = (IF a = MOR THEN "mor" ELSE "eth")
  /\ IF RefillWanted(a)
     THEN /\ pullFlight' = pullFlight \cup {[asset |-> a, args |-> PullArgs(a)]}
          /\ refillPc' = PullAwait(PullWaitPc(a), PullNextPc(a))
     ELSE /\ refillPc' = PullNextPc(a)
          /\ UNCHANGED pullFlight
  /\ UNCHANGED <<ledgerVars, refillCfg, balance, refillRead, refillRuns, spends, pulls, pulledAt,
                 lastEv>>
  /\ RefillFrame

\* The pull is mined, reverts or the call throws; the block logs the
\* outcome (the catch logs a failure) and the run goes on to what follows.
PullReceipt ==
  /\ \E f \in pullFlight : \E st \in PullOutcomes(f.asset) :
       LET a == f.asset IN
       /\ pullFlight' = pullFlight \ {f}
       /\ pulls' = Append(pulls, [asset |-> a, amount |-> f.args.amount,
                                  remaining |-> PolicyRemaining(allowance[a], nowMin),
                                  args |-> f.args, status |-> st])
       /\ pulledAt' = IF st = "success"
                      THEN [pulledAt EXCEPT ![a][nowMin] = @ + f.args.amount]
                      ELSE pulledAt
       /\ lastEv' = [kind |-> "pull", asset |-> a, status |-> st]
       /\ allowance' = IF st = "success"
                       THEN [allowance EXCEPT ![a] =
                               LedgerExecuteAllowanceTransfer(@, f.args.amount, nowMin)]
                       ELSE allowance
       /\ balance' = IF st = "success"
                     THEN [balance EXCEPT ![a] = @ + f.args.amount]
                     ELSE balance
       /\ refillPc' = IF refillPc = PullWaitPc(a) THEN PullNextPc(a) ELSE refillPc
  /\ UNCHANGED <<threshold, owners, moduleEnabled, safeNonce, delegates, nowMin>>
  /\ UNCHANGED <<refillCfg, refillRead, refillRuns, spends>>
  /\ RefillFrame

PullNext ==
  \/ RefillStart
  \/ \E a \in Assets : PullSubmit(a)
  \/ PullReceipt
  \/ \E a \in Assets : EnvSpend(a)
  \/ \E a \in Assets : \E amount \in AllowanceAmounts[a], reset \in ResetIntervals :
       EnvSetAllowance(a, amount, reset)

\* The run's own steps are taken eventually: the script runs on, and the
\* network answers every submitted pull.
SpecPull ==
  /\ RefillInit /\ [][PullNext]_vars
  /\ WF_vars(\E a \in Assets : PullSubmit(a))
  /\ WF_vars(PullReceipt)

\* ------------------------------------------------------------------------
\* Claims about autonomous pulls
\* ------------------------------------------------------------------------
RECURSIVE SumPulled(_, _, _)
\* The amounts asset a's successful pulls moved in the minutes from..to.
SumPulled(a, from, to) ==
  IF to < from \/ to < 1 THEN 0
  ELSE pulledAt[a][to] + SumPulled(a, from, to - 1)

\* What the delegate pulled in the reset window the allowance is in.
WindowPulled(a) == SumPulled(a, allowance[a].lastResetMin, MaxTime)

\* The pulls of the current run for asset a.
RunPulls(a) == {i \in 1..Len(pulls) : pulls[i].asset = a}

C5_SpentWithinGranted ==
  (lastEv.kind = "pull" /\ lastEv.status = "success") =>
    /\ allowance[lastEv.asset].spent <= allowance[lastEv.asset].amount
    /\ WindowPulled(lastEv.asset) <= allowance[lastEv.asset].amount
    /\ WindowPulled(lastEv.asset) = allowance[lastEv.asset].spent

C5_Witness ==
  /\ lastEv = [kind |-> "pull", asset |-> MOR, status |-> "success"]
  /\ refillRuns = 2
  /\ allowance[MOR].spent = allowance[MOR].amount
  /\ allowance[MOR].lastResetMin > 1

\* The refill blocks a run has passed: MOR once the run is at the ETH block,
\* both once it is done.
RefillDecided(a) ==
  /\ refillRuns > 0
  /\ \/ refillPc = "done"
     \/ refillPc \in {"eth", "ethWait"} /\ a = MOR

\* C24: in a refill run a pull for an asset is submitted if and only if the
\* balance of that asset read at the start of the run is strictly below the
\* asset's low threshold; a balance equal to or above the threshold causes no
\* pull, and no block submits more than one pull.
C24_PullIffBelowThreshold ==
  \A a \in Assets :
    RefillDecided(a) =>
      /\ (RunPulls(a) # {}) <=> (refillRead[a] < refillCfg[a].low)
      /\ Cardinality(RunPulls(a)) <= 1

\* A finished run that read an ETH balance equal to the ETH threshold and
\* pulled MOR but not ETH.
C24_Witness ==
  /\ refillPc = "done" /\ refillRuns > 0
  /\ refillRead[ETH] = refillCfg[ETH].low
  /\ RunPulls(ETH) = {}
  /\ RunPulls(MOR) # {}

\* C25: every pull the refill job submits goes through the direct delegate
\* path: empty signature, zero payment in no payment token, the hot wallet
\* as delegate and as recipient, the configured Safe as source; and the
\* refill job computes no commitment and produces no signature.
C25_DirectDelegatePathOnly ==
  /\ \A i \in 1..Len(pulls) :
       /\ pulls[i].args.signature = <<>>
       /\ pulls[i].args.payment = 0
       /\ pulls[i].args.paymentToken = zeroAddress
       /\ pulls[i].args.delegate = Agent
       /\ pulls[i].args.to = Agent
       /\ pulls[i].args.safe = "safe"
       /\ pulls[i].args.token = PullToken(pulls[i].asset)
       /\ pulls[i].args.amount = refillCfg[pulls[i].asset].amount
  /\ dgOut = <<>> /\ sgOut = <<>>
  /\ \A o \in Owners : proc[o].pc = "idle"

\* A run that pulled both assets, one of the pulls having moved funds.
C25_Witness ==
  /\ refillPc = "done"
  /\ RunPulls(MOR) # {} /\ RunPulls(ETH) # {}
  /\ \E i \in 1..Len(pulls) : pulls[i].status = "success"

\* The pulls of asset a the current run has submitted: those whose outcome
\* is logged and those still in flight.
PullsSubmitted(a) ==
  Cardinality(RunPulls(a)) + Cardinality({f \in pullFlight : f.asset = a})

\* C33: a refill run submits at most one pull per asset, MOR before ETH and
\* never two in flight together; whatever the outcome of the MOR pull the
\* run goes on to the ETH block (no retry), where the pull is decided on the
\* ETH balance read at the start of the run; and every run that started
\* reaches its completion step.
C33_OnePullPerAssetInOrder ==
  /\ [](\A a \in Assets : PullsSubmitted(a) <= 1)
  /\ [](Cardinality(pullFlight) <= 1)
  /\ [](PullsSubmitted(ETH) > 0 =>
          /\ refillPc \in {"ethWait", "done"}
          /\ \A f \in pullFlight : f.asset # MOR
          /\ \A i \in RunPulls(MOR) : \A j \in RunPulls(ETH) : i < j)
  /\ []((refillPc \in {"ethWait", "done"} /\ refillRuns > 0) =>
          (PullsSubmitted(ETH) = 1 <=> refillRead[ETH] < refillCfg[ETH].low))
  /\ [][\A f \in pullFlight :
          f \notin pullFlight' => refillPc' = PullNextPc(f.asset)]_vars
  /\ (refillPc \in {"mor", "morWait", "eth", "ethWait"}) ~> (refillPc = "done")

\* C33 witness: a finished run whose MOR pull reverted and whose ETH pull,
\* submitted after it, succeeded.
C33_Witness ==
  /\ refillPc = "done" /\ Len(pulls) = 2 /\ pullFlight = {}
  /\ pulls[1].asset = MOR /\ pulls[1].status = "reverted"
  /\ pulls[2].asset = ETH /\ pulls[2].status = "success"

\* ------------------------------------------------------------------------
\* agent-treasury-status.mjs: the per-allowance evaluation
\* ------------------------------------------------------------------------
RECURSIVE Pow10(_)
Pow10(n) == IF n = 0 THEN 1 ELSE 10 * Pow10(n - 1)

RECURSIVE Digits(_, _)
\* The n decimal digits of v, most significant first.
Digits(v, n) == IF n = 0 THEN <<>> ELSE Append(Digits(v \div 10, n - 1), v % 10)

RECURSIVE TrimZeros(_)
TrimZeros(ds) ==
  IF ds # <<>> /\ ds[Len(ds)] = 0 THEN TrimZeros(SubSeq(ds, 1, Len(ds) - 1)) ELSE ds

\* viem formatEther: the integer part and the fraction digits, trailing zeros dropped.
formatEther(v) ==
  [int |-> v \div Pow10(EtherDecimals),
   frac |-> TrimZeros(Digits(v % Pow10(EtherDecimals), EtherDecimals))]

\* The literal "0" of the report.
ZeroStr == [int |-> 0, frac |-> <<>>]

\* The remaining amount without the clamp at zero.
StatusRemaining_NoClamp(amount, spent) == amount - spent

\* const remaining = spent > amount ? 0n : amount - spent;
StatusRemaining(amount, spent) == IF spent > amount THEN 0 ELSE amount - spent

\* The texts of nextResetStr: the two fixed ones, and the instant of the next
\* reset followed by "(in <diffH>h <diffM>m)".
NotYetUsed == [kind |-> "Not yet used", instant |-> 0, diffH |-> 0, diffM |-> 0]
ResetAvailableNow == [kind |-> "Reset available now", instant |-> 0, diffH |-> 0, diffM |-> 0]
ResetAt(nextReset, diffMs) ==
  [kind |-> "at", instant |-> nextReset,
   diffH |-> diffMs \div (60 * SubMin),
   diffM |-> (diffMs % (60 * SubMin)) \div SubMin]

\* The next reset taken from the wall clock alone: the end of the interval-long
\* slot of the clock that holds now.
StatusNextReset_Modulo(al, now) ==
  IF al.lastResetMin = 0 THEN NotYetUsed
  ELSE LET slot == al.resetTimeMin * SubMin
           nextReset == ((now \div slot) + 1) * slot
       IN IF nextReset <= now THEN ResetAvailableNow
          ELSE ResetAt(nextReset, nextReset - now)

\* nextResetStr: "Not yet used", "Reset available now" or the instant
\* (lastResetMin + resetTimeMin) * 60 s with the hours and minutes left.
StatusNextReset(al, now) ==
  IF al.lastResetMin = 0 THEN NotYetUsed
  ELSE LET nextReset == (al.lastResetMin + al.resetTimeMin) * SubMin IN
       IF nextReset <= now THEN ResetAvailableNow
       ELSE ResetAt(nextReset, nextReset - now)

\* The entry pushed to result.allowances for one [label, token, allowance].
StatusEntry(label, al, now) ==
  [token |-> label,
   limit |-> formatEther(al.amount),
   spent |-> formatEther(al.spent),
   remainingWei |-> StatusRemaining(al.amount, al.spent),
   remaining |-> IF al.spent > al.amount THEN ZeroStr
                 ELSE formatEther(StatusRemaining(al.amount, al.spent)),
   resetIntervalMin |-> al.resetTimeMin,
   lastResetMin |-> al.lastResetMin,
   nextReset |-> StatusNextReset(al, now),
   nonce |-> al.nonce]

StatusFrame == UNCHANGED <<ledgerVars, cfgVars, refillVars, relayVars, pureVars>>

\* The allowances of a delegate have been fetched; the loop starts.
StatusStart ==
  /\ stPc = "idle"
  /\ stPc' = MOR
  /\ stOut' = <<>>
  /\ UNCHANGED <<stIn, stNow, viewVars>>
  /\ StatusFrame

\* One pass of: for (const [label, token, allowance] of [MOR, ETH])
StatusEval ==
  /\ stPc \in Assets
  /\ stOut' = IF stIn[stPc].amount = 0 THEN stOut
              ELSE Append(stOut, StatusEntry(stPc, stIn[stPc], stNow))
  /\ stPc' = IF stPc = MOR THEN ETH ELSE "done"
  /\ UNCHANGED <<stIn, stNow, viewVars>>
  /\ StatusFrame

StatusAmounts == {0, 5, 50}
StatusSpents == {0, 45, 60}
\* The interval of the configuration and one longer than an hour.
StatusIntervals == ResetIntervals \cup {62}
StatusTuples ==
  {t \in [amount : StatusAmounts, spent : StatusSpents, resetTimeMin : StatusIntervals,
          lastResetMin : 0..1, nonce : 1..1] :
     t.lastResetMin = 0 => t.spent = 0}
\* Clocks just before, at and just after minute 3, where a window begun at
\* minute 1 with interval 2 ends.
StatusNows == {3 * SubMin - 1, 3 * SubMin, 3 * SubMin + 1}

StatusInit ==
  /\ owners = Owners /\ threshold = 1 /\ moduleEnabled = TRUE /\ safeNonce = 0
  /\ delegates = {Agent}
  /\ allowance = [a \in Assets |-> NoAllowance]
  /\ nowMin = 1
  /\ stIn \in [Assets -> StatusTuples]
  /\ stNow \in StatusNows
  /\ stOut = <<>> /\ stPc = "idle" /\ ViewIdle
  /\ CfgIdle /\ RefillIdle /\ RelayIdle /\ PureIdle

StatusNext == StatusStart \/ StatusEval

SpecStatus == StatusInit /\ [][StatusNext]_vars

\* ------------------------------------------------------------------------
\* Claims about the local allowance evaluation
\* ------------------------------------------------------------------------
RECURSIVE DigitsValue(_)
DigitsValue(ds) ==
  IF ds = <<>> THEN 0 ELSE 10 * DigitsValue(SubSeq(ds, 1, Len(ds) - 1)) + ds[Len(ds)]

\* The amount a formatted value denotes.
EtherValue(str) ==
  str.int * Pow10(EtherDecimals)
    + DigitsValue(str.frac) * Pow10(EtherDecimals - Len(str.frac))

\* A reset is due for the tuple read: the clock is at or past minute
\* lastResetMin + resetTimeMin.
StatusResetDue(al, now) ==
  al.lastResetMin > 0 /\ al.resetTimeMin > 0 /\
  now >= (al.lastResetMin + al.resetTimeMin) * SubMin

\* C6 (as stated): when a reset is due the evaluation takes spent as 0, so the
\* remaining allowance it reports equals the granted amount.
C6_ResetDueRemainingIsGranted ==
  \A i \in 1..Len(stOut) :
    StatusResetDue(stIn[stOut[i].token], stNow) =>
      /\ stOut[i].remainingWei = stIn[stOut[i].token].amount
      /\ stOut[i].remaining = stOut[i].limit

\* C7: when no reset is due the remaining allowance reported is
\* max(0, granted - spent): granted - spent when spent <= granted, 0 when
\* spent > granted, never negative, and the formatted value is that amount's.
C7_RemainingIsClampedDifference ==
  \A i \in 1..Len(stOut) :
    LET al == stIn[stOut[i].token]
        d == al.amount - al.spent
        want == IF d > 0 THEN d ELSE 0
    IN ~StatusResetDue(al, stNow) =>
         /\ stOut[i].remainingWei = want
         /\ stOut[i].remainingWei >= 0
         /\ EtherValue(stOut[i].remaining) = want

C7_Witness ==
  /\ stPc = "done" /\ Len(stOut) = 2
  /\ ~StatusResetDue(stIn[MOR], stNow) /\ ~StatusResetDue(stIn[ETH], stNow)
  /\ stIn[MOR].amount = 50 /\ stIn[MOR].spent = 45 /\ stOut[1].remainingWei = 5
  /\ stIn[ETH].amount = 5 /\ stIn[ETH].spent = 60 /\ stOut[2].remainingWei = 0

\* The labels of the allowances the loop has passed, in its order.
StatusPassed ==
  IF stPc = "done" THEN <<MOR, ETH>> ELSE IF stPc = ETH THEN <<MOR>> ELSE <<>>

StatusConfigured(a) == stIn[a].amount # 0

\* C39: the reported list holds, in order, exactly the allowances whose granted
\* amount is not 0; each entry's next reset is "Not yet used" when lastResetMin
\* is 0, otherwise "Reset available now" exactly when the clock is at or after
\* minute lastResetMin + resetTimeMin, and otherwise the instant of that
\* minute, which lies after the clock, with the hours and whole minutes of the
\* time left.
C39_NextResetReported ==
  /\ [i \in 1..Len(stOut) |-> stOut[i].token] = SelectSeq(StatusPassed, StatusConfigured)
  /\ \A i \in 1..Len(stOut) :
       LET al == stIn[stOut[i].token]
           due == (al.lastResetMin + al.resetTimeMin) * SubMin
           r == stOut[i].nextReset
           left == r.instant - stNow
       IN /\ al.lastResetMin = 0 <=> r.kind = "Not yet used"
          /\ al.lastResetMin # 0 =>
               /\ r.kind = "Reset available now" <=> stNow >= due
               /\ stNow < due =>
                    /\ r.kind = "at" /\ r.instant = due /\ left > 0
                    /\ r.diffM \in 0..59
                    /\ (r.diffH * 60 + r.diffM) * SubMin <= left
                    /\ left < (r.diffH * 60 + r.diffM + 1) * SubMin

C39_Witness ==
  /\ stPc = "done" /\ Len(stOut) = 1
  /\ stIn[MOR].amount = 0 /\ stOut[1].token = ETH
  /\ stIn[ETH].lastResetMin = 1 /\ stIn[ETH].resetTimeMin = 62
  /\ stNow = 3 * SubMin - 1
  /\ stOut[1].nextReset.kind = "at" /\ stOut[1].nextReset.diffH = 1
  /\ stOut[1].nextReset.diffM = 0

\* ------------------------------------------------------------------------
\* agent-treasury-propose.mjs: propose, confirm and the relay
\* ------------------------------------------------------------------------
\* ---- the relay (Safe Transaction Service)
Signers(p) == {p.confirmations[i].owner : i \in 1..Len(p.confirmations)}
SignerCount(p) == Cardinality(Signers(p))

\* The relay dropping the earlier confirmations when one is added.
RelayAddConfirmation_Replace(confs, o, sig) == <<[owner |-> o, signature |-> sig]>>

\* One confirmation per owner, kept in submission order; re-adding replaces.
RelayAddConfirmation(confs, o, sig) ==
  IF \E i \in 1..Len(confs) : confs[i].owner = o
  THEN [i \in 1..Len(confs) |->
          IF confs[i].owner = o THEN [owner |-> o, signature |-> sig] ELSE confs[i]]
  ELSE Append(confs, [owner |-> o, signature |-> sig])

\* POST /safes/{safe}/multisig-transactions/: [status, result, store].
RelayPostTransaction(store, body) ==
  LET h == body.contractTransactionHash IN
  IF h # computeSafeTxHash(DomainSeparator, body.tx)
       \/ body.sender \notin owners
       \/ RecoverSigner(body.signature, h) # body.sender
  THEN [status |-> 422, result |-> "rejected", store |-> store]
  ELSE IF h \in DOMAIN store
  THEN [status |-> 201,
        result |-> IF body.sender \in Signers(store[h]) THEN "replaced" ELSE "added",
        store |-> [store EXCEPT ![h].confirmations =
                     RelayAddConfirmation(@, body.sender, body.signature)]]
  ELSE [status |-> 201, result |-> "created",
        store |-> (h :> [tx |-> body.tx,
                         confirmations |-> RelayAddConfirmation(<<>>, body.sender, body.signature),
                         confirmationsRequired |-> threshold,
                         executed |-> FALSE, execCount |-> 0, execThreshold |-> 0]) @@ store]

\* POST /multisig-transactions/{hash}/confirmations/: [status, result, store].
RelayPostConfirmation(store, h, signature) ==
  IF h \notin DOMAIN store
  THEN [status |-> 404, result |-> "unknown", store |-> store]
  ELSE LET o == RecoverSigner(signature, h) IN
       IF o \notin owners
       THEN [status |-> 422, result |-> "rejected", store |-> store]
       ELSE [status |-> 201,
             result |-> IF o \in Signers(store[h]) THEN "replaced" ELSE "added",
             store |-> [store EXCEPT ![h].confirmations = RelayAddConfirmation(@, o, signature)]]

\* ---- the ledger executing a proposal
\* Safe.execTransaction accepting signatures below the threshold.
LedgerExecTransactionAccepts_AnySignature(p) == SignerCount(p) >= 1

\* Safe.execTransaction: the nonce is the current one and at least threshold
\* distinct owners signed the commitment.
LedgerExecTransactionAccepts(p) ==
  /\ p.tx.nonce = safeNonce
  /\ Cardinality({p.confirmations[i].owner : i \in
                    {j \in 1..Len(p.confirmations) :
                       p.confirmations[j].owner \in owners /\
                       RecoverSigner(p.confirmations[j].signature,
                                     computeSafeTxHash(DomainSeparator, p.tx))
                         = p.confirmations[j].owner}}) >= threshold

\* ---- the transactions the commands propose
ChangeThresholdTx(v) == [to |-> "safe", value |-> 0, data |-> <<"changeThreshold", v>>,
                         operation |-> 0]
TransferEthTx == [to |-> "recipient", value |-> 1, data |-> <<>>, operation |-> 0]
ProposalArgs == {ChangeThresholdTx(1), ChangeThresholdTx(2), TransferEthTx}

\* A hash no proposal was ever made for (a mistyped --hash).
UnknownHash == keccak256(<<"unknown">>)

\* The nonce taken from a local count of the commands run so far.
ProposalNonce_Counter(n) == relayCmds + 1

\* The nonce taken from the queue of pending proposals instead of the chain.
ProposalNonce_Queued(n) == n + Cardinality({h \in DOMAIN relay : ~relay[h].executed})

\* cmdPropose: the nonce put in txData is the one read from the Safe.
ProposalNonce(n) == n

\* A response taken as a success whatever its status.
ResponseOk_Always(status) == TRUE

\* response.ok: the status is in 200..299; otherwise the submit function
\* throws and main's catch logs FATAL and exits with status 1.
ResponseOk(status) == status >= 200 /\ status <= 299

RelayFrame == UNCHANGED <<cfgVars, refillVars, statusVars, pureVars>>

\* A command line that loads the key for every command.
NeedsKey_Always(command) == TRUE

\* main(): 'pending' returns before getPrivateKey(); "All other commands
\* need the agent key".
NeedsKey(command) == command # "pending"

\* The key loads after main() ran a command.
KeyLoadsAfter(command) ==
  IF NeedsKey(command) THEN keyLoads \cup {command} ELSE keyLoads

\* cmdPropose up to the signature: lines 274-287.
cmdProposeSign(o, targetArgs) ==
  /\ proc[o].pc = "idle"
  /\ relayCmds < MaxCmds
  /\ relayCmds' = relayCmds + 1
  /\ LET txData == [to |-> targetArgs.to, value |-> targetArgs.value, data |-> targetArgs.data,
                    operation |-> targetArgs.operation, nonce |-> ProposalNonce(safeNonce)]
         safeTxHash == computeSafeTxHash(DomainSeparator, txData)
     IN proc' = [proc EXCEPT ![o] = [pc |-> "proposeSigned", txData |-> txData,
                                     readNonce |-> safeNonce,
                                     safeTxHash |-> safeTxHash,
                                     signature |-> signSafeTxHash(o, safeTxHash)]]
  /\ keyLoads' = KeyLoadsAfter("propose")
  /\ UNCHANGED <<ledgerVars, relay, lastPost, posted>>
  /\ UNCHANGED listVars
  /\ RelayFrame

\* A body that names the Safe as the sender.
ProposalBody_SenderSafe(o) ==
  [tx |-> proc[o].txData,
   safeTxGas |-> 0, baseGas |-> 0, gasPrice |-> 0,
   gasToken |-> zeroAddress, refundReceiver |-> zeroAddress,
   contractTransactionHash |-> proc[o].safeTxHash,
   sender |-> "safe",
   signature |-> proc[o].signature]

\* submitToTxService: the JSON body of the POST; tx holds to, value, data,
\* operation and nonce as cmdPropose built them, the fee fields are literals.
ProposalBody(o) ==
  [tx |-> proc[o].txData,
   safeTxGas |-> 0, baseGas |-> 0, gasPrice |-> 0,
   gasToken |-> zeroAddress, refundReceiver |-> zeroAddress,
   contractTransactionHash |-> proc[o].safeTxHash,
   sender |-> o,
   signature |-> proc[o].signature]

\* cmdPropose from submitToTxService on: lines 289-301.
cmdProposePost(o) ==
  /\ proc[o].pc = "proposeSigned"
  /\ LET r == RelayPostTransaction(relay, ProposalBody(o))
     IN /\ relay' = r.store
        /\ lastPost' = [owner |-> o, kind |-> "propose", status |-> r.status, result |-> r.result,
                        outcome |-> IF ResponseOk(r.status) THEN "returned" ELSE "threw"]
        /\ posted' = IF o \in owners
                     THEN posted \cup {<<o, proc[o].safeTxHash,
                                         \E o2 \in Owners \ {o} :
                                           /\ proc[o2].pc \in {"proposeSigned", "confirmSigned"}
                                           /\ proc[o2].safeTxHash = proc[o].safeTxHash>>}
                     ELSE posted
  /\ proc' = [proc EXCEPT ![o] = [pc |-> "idle"]]
  /\ UNCHANGED <<ledgerVars, relayCmds, keyLoads>>
  /\ UNCHANGED listVars
  /\ RelayFrame

\* cmdConfirm up to the signature: lines 392-400; the hash is the caller's.
cmdConfirmSign(o, hash) ==
  /\ proc[o].pc = "idle"
  /\ relayCmds < MaxCmds
  /\ relayCmds' = relayCmds + 1
  /\ proc' = [proc EXCEPT ![o] = [pc |-> "confirmSigned", safeTxHash |-> hash,
                                  signature |-> signSafeTxHash(o, hash)]]
  /\ keyLoads' = KeyLoadsAfter("confirm")
  /\ UNCHANGED <<ledgerVars, relay, lastPost, posted>>
  /\ UNCHANGED listVars
  /\ RelayFrame

\* cmdConfirm from submitConfirmation on: lines 401-404.
cmdConfirmPost(o) ==
  /\ proc[o].pc = "confirmSigned"
  /\ LET r == RelayPostConfirmation(relay, proc[o].safeTxHash, proc[o].signature)
     IN /\ relay' = r.store
        /\ lastPost' = [owner |-> o, kind |-> "confirm", status |-> r.status, result |-> r.result,
                        outcome |-> IF ResponseOk(r.status) THEN "returned" ELSE "threw"]
        /\ posted' = IF o \in owners /\ proc[o].safeTxHash \in DOMAIN relay
                     THEN posted \cup {<<o, proc[o].safeTxHash,
                                         \E o2 \in Owners \ {o} :
                                           /\ proc[o2].pc \in {"proposeSigned", "confirmSigned"}
                                           /\ proc[o2].safeTxHash = proc[o].safeTxHash>>}
                     ELSE posted
  /\ proc' = [proc EXCEPT ![o] = [pc |-> "idle"]]
  /\ UNCHANGED <<ledgerVars, relayCmds, keyLoads>>
  /\ UNCHANGED listVars
  /\ RelayFrame

\* A pending proposal is submitted to the Safe with the signatures collected
\* (by the Safe Wallet app); the ledger executes it if it accepts them.
ExecuteProposal(h) ==
  /\ h \in DOMAIN relay
  /\ ~relay[h].executed
  /\ safeNonce < MaxNonce
  /\ LedgerExecTransactionAccepts(relay[h])
  /\ relay' = [relay EXCEPT ![h].executed = TRUE,
                            ![h].execCount = SignerCount(relay[h]),
                            ![h].execThreshold = threshold]
  /\ safeNonce' = safeNonce + 1
  /\ threshold' = IF relay[h].tx.to = "safe" /\ Len(relay[h].tx.data) = 2
                  THEN relay[h].tx.data[2] ELSE threshold
  /\ UNCHANGED <<owners, moduleEnabled, delegates, allowance, nowMin>>
  /\ UNCHANGED <<proc, lastPost, relayCmds, posted, keyLoads>>
  /\ UNCHANGED listVars
  /\ RelayFrame

RelayInit ==
  /\ owners = Owners /\ threshold \in 1..2 /\ moduleEnabled = TRUE /\ safeNonce = 0
  /\ delegates = {Agent}
  /\ allowance = [a \in Assets |-> NoAllowance]
  /\ nowMin = 1
  /\ CfgIdle /\ RefillIdle /\ StatusIdle /\ RelayIdle /\ PureIdle

\* ---- listing the pending proposals
\* What the relay returns for ?executed=false: its stored proposals.
RelayPending(store) ==
  [h \in {x \in DOMAIN store : ~store[x].executed} |->
     [safeTxHash |-> h, to |-> store[h].tx.to, value |-> store[h].tx.value,
      data |-> store[h].tx.data, nonce |-> store[h].tx.nonce,
      confirmations |-> store[h].confirmations,
      confirmationsRequired |-> store[h].confirmationsRequired]]

\* A confirmation entry whose signature verifies for no commitment.
ForgedConfirmation(o) ==
  [owner |-> o, signature |-> [rs |-> <<"forged", <<"forged">>>>, tail |-> <<27>>]]

\* The responses a listing can receive: the relay is outside the program, so
\* besides its stored proposals a response may carry a confirmation entry the
\* relay did not verify.
RelayPendingResponses(store) ==
  {RelayPending(store)} \cup
  {[RelayPending(store) EXCEPT ![h].confirmations = Append(@, ForgedConfirmation(o))] :
     <<h, o>> \in {x \in (DOMAIN RelayPending(store)) \X Owners :
                    x[2] \notin Signers(store[x[1]])}}

\* The relay's indexer catches up with the chain: pending proposals get the
\* Safe's current threshold as confirmationsRequired.
RelayReindex ==
  /\ \E h \in DOMAIN relay : ~relay[h].executed /\ relay[h].confirmationsRequired # threshold
  /\ relay' = [h \in DOMAIN relay |->
                 IF relay[h].executed THEN relay[h]
                 ELSE [relay[h] EXCEPT !.confirmationsRequired = threshold]]
  /\ UNCHANGED <<ledgerVars, proc, lastPost, relayCmds, posted, listVars, keyLoads>>
  /\ RelayFrame

\* The entry reported for one fetched transaction: confirmations.length and
\* the owners named by the entries, confirmationsRequired as fetched.
PendingEntry(tx) ==
  [safeTxHash |-> tx.safeTxHash, to |-> tx.to, value |-> tx.value, data |-> tx.data,
   nonce |-> tx.nonce,
   confirmations |-> Len(tx.confirmations),
   confirmationsRequired |-> tx.confirmationsRequired,
   signers |-> [i \in 1..Len(tx.confirmations) |-> tx.confirmations[i].owner]]

\* cmdPending: fetch the pending transactions and report each of them.
cmdPending ==
  /\ relayCmds < MaxCmds
  /\ relayCmds' = relayCmds + 1
  /\ \E resp \in RelayPendingResponses(relay) :
       /\ pending' = resp
       /\ listing' = [h \in DOMAIN resp |-> PendingEntry(resp[h])]
  /\ listThreshold' = threshold
  /\ keyLoads' = KeyLoadsAfter("pending")
  /\ UNCHANGED <<ledgerVars, relay, proc, lastPost, posted>>
  /\ RelayFrame

\* The status command, section 4 (Pending Transactions): the same fetch and
\* the same entries; a response that is not ok leaves the section null.  The
\* script holds no wallet client and never reads the key.
StatusPending ==
  /\ relayCmds < MaxCmds
  /\ relayCmds' = relayCmds + 1
  /\ \/ \E resp \in RelayPendingResponses(relay) :
          /\ pending' = resp
          /\ listing' = [h \in DOMAIN resp |-> PendingEntry(resp[h])]
     \/ pending' = <<>> /\ listing' = <<>>
  /\ listThreshold' = threshold
  /\ UNCHANGED <<ledgerVars, relay, proc, lastPost, posted, keyLoads>>
  /\ RelayFrame

RelayNext ==
  \/ \E o \in Owners : \E targetArgs \in ProposalArgs : cmdProposeSign(o, targetArgs)
  \/ \E o \in Owners : cmdProposePost(o)
  \/ \E o \in Owners : \E hash \in DOMAIN relay \cup {UnknownHash} : cmdConfirmSign(o, hash)
  \/ \E o \in Owners : cmdConfirmPost(o)
  \/ \E h \in DOMAIN relay : ExecuteProposal(h)
  \/ RelayReindex
  \/ cmdPending
  \/ StatusPending

SpecRelay == RelayInit /\ [][RelayNext]_vars

\* ---- the status run
\* A relay failure reported as an empty list.
ViewPendingFailed_Empty == [set |-> TRUE, null |-> FALSE, list |-> <<>>]

\* catch (e): result.pendingTransactions = null;
ViewPendingFailed == [set |-> TRUE, null |-> TRUE]

\* result.pendingTransactions after the loop over a response that was ok.
ViewPendingList(entries) == [set |-> TRUE, null |-> FALSE, list |-> entries]

ViewFrame == UNCHANGED <<ledgerVars, cfgVars, refillVars, pureVars>>

\* A read outside every try block throws: main().catch logs FATAL, exit 1.
ViewFatal ==
  /\ viewPc' = "fatal" /\ viewFaults' = viewFaults \cup {"rpc"}
  /\ UNCHANGED <<viewResult, stIn, stNow, stOut, stPc, relayVars>>

\* 1. Safe Overview: the four reads and result.safe.
ViewOverview ==
  /\ viewPc = "idle" /\ safeAddress # "unset"
  /\ \/ /\ viewResult' = [viewResult EXCEPT !.safe =
                            [set |-> TRUE, threshold |-> threshold,
                             ownerCount |-> Cardinality(owners), owners |-> owners,
                             allowanceModuleEnabled |-> moduleEnabled, nonce |-> safeNonce]]
        /\ viewPc' = "balances"
        /\ UNCHANGED <<viewFaults, stIn, stNow, stOut, stPc, relayVars>>
     \/ ViewFatal
  /\ ViewFrame

\* What the Safe holds when it is read: nothing, or MOR.
ViewSafeBalances == {0, 50}

\* 2. Balances: the Safe's MOR and ETH, formatted; no delegate entry yet.
ViewBalances ==
  /\ viewPc = "balances"
  /\ \/ \E safeMor \in ViewSafeBalances, safeEth \in {0} :
          /\ viewResult' = [viewResult EXCEPT !.balances =
                              [set |-> TRUE,
                               safe |-> [mor |-> formatEther(safeMor),
                                         eth |-> formatEther(safeEth)],
                               delegates |-> <<>>]]
          /\ viewPc' = "delegates"
          /\ UNCHANGED <<viewFaults, stIn, stNow, stOut, stPc, relayVars>>
     \/ ViewFatal
  /\ ViewFrame

\* 3. The delegate list: read inside try; on failure delegates stays [].
\* result.allowances = [] follows in either case.
ViewDelegates ==
  /\ viewPc = "delegates"
  /\ \/ /\ viewPc' = IF delegates = {} THEN "pending" ELSE "allowances"
        /\ UNCHANGED viewFaults
     \/ /\ viewPc' = "pending"
        /\ viewFaults' = viewFaults \cup {"delegates"}
  /\ stOut' = <<>>
  /\ UNCHANGED <<viewResult, stIn, stNow, stPc, relayVars>>
  /\ ViewFrame

\* The reads for one delegate: its balances and its two allowance tuples,
\* none of them inside a try block.
ViewReadAllowances ==
  /\ viewPc = "allowances" /\ stPc = "idle"
  /\ \/ /\ viewResult' = [viewResult EXCEPT !.balances.delegates =
                            [d \in delegates |-> [mor |-> formatEther(balance[MOR]),
                                                  eth |-> formatEther(balance[ETH])]]]
        /\ stIn' = allowance
        /\ \E sub \in 0..(SubMin - 1) : stNow' = nowMin * SubMin + sub
        /\ stPc' = MOR
        /\ UNCHANGED <<viewPc, viewFaults, stOut, relayVars>>
     \/ ViewFatal
  /\ ViewFrame

\* 4. Pending Transactions: result.pendingTransactions = [], then the fetch
\* inside try.  A fetch that throws, a response that is not ok, a body that
\* is not JSON and an entry whose value BigInt() rejects all end in catch.
ViewPending ==
  /\ viewPc = "pending" \/ (viewPc = "allowances" /\ stPc = "done")
  /\ \/ \E resp \in RelayPendingResponses(relay) :
          /\ pending' = resp
          /\ listing' = [h \in DOMAIN resp |-> PendingEntry(resp[h])]
          /\ viewResult' = [viewResult EXCEPT !.pendingTransactions =
                              ViewPendingList(listing')]
          /\ UNCHANGED viewFaults
     \/ /\ pending' = <<>> /\ listing' = <<>>
        /\ viewResult' = [viewResult EXCEPT !.pendingTransactions = ViewPendingFailed]
        /\ viewFaults' = viewFaults \cup {"relay"}
  /\ listThreshold' = threshold
  /\ viewPc' = "daemon"
  /\ UNCHANGED <<stIn, stNow, stOut, stPc, relay, proc, lastPost, relayCmds, posted, keyLoads>>
  /\ ViewFrame

\* 5. Refill Daemon, both parts inside try, then the JSON output of result.
ViewFinish ==
  /\ viewPc = "daemon"
  /\ \E loaded \in BOOLEAN :
       viewResult' = [viewResult EXCEPT !.refillDaemon = [set |-> TRUE, loaded |-> loaded]]
  /\ viewPc' = "done"
  /\ UNCHANGED <<viewFaults, stIn, stNow, stOut, stPc, relayVars>>
  /\ ViewFrame

\* An allowance in use, as getTokenAllowance returns it.
ViewTuple == [amount |-> 50, spent |-> 45, resetTimeMin |-> 2, lastResetMin |-> 1, nonce |-> 1]

ViewInit ==
  /\ owners = Owners /\ threshold = 1 /\ moduleEnabled = TRUE /\ safeNonce = 0
  /\ delegates \in {{}, {Agent}}
  /\ allowance = [a \in Assets |-> IF delegates = {} THEN NoAllowance ELSE ViewTuple]
  /\ nowMin = 1
  /\ CfgIdle /\ RefillIdle /\ StatusIdle /\ RelayIdle /\ PureIdle

ViewStep ==
  \/ ViewOverview
  \/ ViewBalances
  \/ ViewDelegates
  \/ ViewReadAllowances
  \/ StatusEval
  \/ ViewPending
  \/ ViewFinish

ViewNext ==
  \/ ViewStep
  \/ \E targetArgs \in ProposalArgs : cmdProposeSign(Agent, targetArgs)
  \/ cmdProposePost(Agent)

\* The run is one process whose awaits all return or throw.
SpecView == ViewInit /\ [][ViewNext]_vars /\ WF_vars(ViewStep)

\* C40: a failed relay fetch leaves result.pendingTransactions null, which is
\* not the empty list a response without pending transactions leaves; a failed
\* delegate-list read leaves result.allowances empty; neither ends the run:
\* only a read outside the two try blocks does, every run that started ends,
\* and the overview and the balances read stay in the result to the output.
C40_RelayAndDelegateFaultsTolerated ==
  /\ []("relay" \in viewFaults =>
          /\ viewResult.pendingTransactions = ViewPendingFailed
          /\ viewResult.pendingTransactions # ViewPendingList(<<>>))
  /\ []((viewPc \in {"daemon", "done"} /\ "relay" \notin viewFaults) =>
          /\ viewResult.pendingTransactions = ViewPendingList(listing)
          /\ listing = [h \in DOMAIN pending |-> PendingEntry(pending[h])])
  /\ []("delegates" \in viewFaults => stOut = <<>> /\ stPc = "idle")
  /\ [](viewPc = "fatal" <=> "rpc" \in viewFaults)
  /\ [](viewPc \in {"delegates", "allowances", "pending", "daemon", "done"} =>
          /\ viewResult.safe.set /\ viewResult.safe.threshold = threshold
          /\ viewResult.safe.owners = owners
          /\ viewResult.balances.set)
  /\ [][/\ viewResult.safe.set => viewResult'.safe = viewResult.safe
        /\ viewResult.balances.set =>
             /\ viewResult'.balances.set
             /\ viewResult'.balances.safe = viewResult.balances.safe]_vars
  /\ (viewPc # "idle") ~> (viewPc \in {"done", "fatal"})
  /\ (viewPc = "delegates") ~> (viewPc = "done" \/ "rpc" \in viewFaults)

C40_Witness ==
  /\ viewPc = "done" /\ viewFaults = {"delegates", "relay"}
  /\ delegates = {Agent} /\ allowance[MOR] = ViewTuple
  /\ relay # <<>>
  /\ stOut = <<>> /\ viewResult.pendingTransactions = ViewPendingFailed
  /\ viewResult.safe.set /\ viewResult.balances.set
  /\ viewResult.balances.safe.mor = formatEther(50)

\* ---- the threshold command
DigitChars == <<"0", "1", "2", "3", "4", "5", "6", "7", "8", "9">>
IsDigit(c) == \E i \in 1..10 : DigitChars[i] = c
DigitOf(c) == (CHOOSE i \in 1..10 : DigitChars[i] = c) - 1

RECURSIVE LeadingDigits(_)
LeadingDigits(cs) ==
  IF cs = <<>> \/ ~IsDigit(Head(cs)) THEN <<>>
  ELSE <<DigitOf(Head(cs))>> \o LeadingDigits(Tail(cs))

\* A JavaScript number: NaN, or the integer n.
NaN == [nan |-> TRUE, n |-> 0]
Num(n) == [nan |-> FALSE, n |-> n]

\* parseInt(string, 10): an optional sign and the leading decimal digits;
\* NaN when there is no digit.
parseInt(cs) ==
  LET neg == cs # <<>> /\ Head(cs) = "-"
      ds == LeadingDigits(IF neg THEN Tail(cs) ELSE cs)
  IN IF ds = <<>> THEN NaN
     ELSE IF neg THEN Num(0 - DigitsValue(ds)) ELSE Num(DigitsValue(ds))

\* The --value arguments tried; "--value" alone is parsed as the string true.
ThresholdInputs ==
  {<<"0">>, <<"1">>, <<"2">>, <<"3">>, <<"-", "1">>, <<"2", "x">>, <<"t", "r", "u", "e">>}

\* The range check without its upper bound.
ThresholdOutOfRange_NoUpper(v, n) == ~v.nan /\ v.n < 1

\* if (newThreshold < 1 || newThreshold > owners.length): both comparisons
\* are false for NaN.
ThresholdOutOfRange(v, n) == ~v.nan /\ (v.n < 1 \/ v.n > n)

\* A command that ended before cmdPropose: what it was given and how it ended.
ThresholdExit(o, value, outcome) ==
  /\ lastPost' = [owner |-> o, kind |-> "threshold", status |-> 0, result |-> "none",
                  outcome |-> outcome, value |-> value, cmd |-> relayCmds + 1]
  /\ relayCmds' = relayCmds + 1
  /\ keyLoads' = KeyLoadsAfter("threshold")
  /\ UNCHANGED <<ledgerVars, relay, proc, posted>>
  /\ UNCHANGED listVars
  /\ RelayFrame

\* cmdThreshold: the value is parsed and checked against getOwners() before
\* anything is encoded; BigInt(NaN) throws a RangeError in the encoding, and
\* a value in range goes to cmdPropose as a changeThreshold call on the Safe.
cmdThreshold(o, value) ==
  /\ proc[o].pc = "idle"
  /\ relayCmds < MaxCmds
  /\ LET newThreshold == parseInt(value) IN
     IF ThresholdOutOfRange(newThreshold, Cardinality(owners))
     THEN ThresholdExit(o, value, "exit1")
     ELSE IF newThreshold.nan
     THEN ThresholdExit(o, value, "threw")
     ELSE cmdProposeSign(o, ChangeThresholdTx(newThreshold.n))

\* An account with one owner or two, at threshold 1.
ThresholdInit ==
  /\ owners \in {{Agent}, Owners} /\ threshold = 1 /\ moduleEnabled = TRUE /\ safeNonce = 0
  /\ delegates = {Agent}
  /\ allowance = [a \in Assets |-> NoAllowance]
  /\ nowMin = 1
  /\ CfgIdle /\ RefillIdle /\ StatusIdle /\ RelayIdle /\ PureIdle

ThresholdNext ==
  \/ \E o \in Owners : \E value \in ThresholdInputs : cmdThreshold(o, value)
  \/ \E o \in Owners : cmdProposePost(o)
  \/ \E h \in DOMAIN relay : ExecuteProposal(h)

SpecThreshold == ThresholdInit /\ [][ThresholdNext]_vars

\* ---- claims about proposals and their signatures
\* The spec's isExecutable: pending with at least threshold distinct signers.
IsExecutable(p) == ~p.executed /\ SignerCount(p) >= threshold

\* C8: a proposal with fewer distinct valid owner signatures than the
\* threshold is never executed (every executed proposal carried at least the
\* threshold in force when it was executed), and adding signatures is
\* monotone: no step removes a proposal or a signer, and a step that adds a
\* signer to an executable proposal leaves it executable.
C8_BelowThresholdNeverExecuted ==
  /\ [](\A h \in DOMAIN relay :
          relay[h].executed => relay[h].execCount >= relay[h].execThreshold)
  /\ [][\A h \in DOMAIN relay :
          /\ h \in DOMAIN relay'
          /\ Signers(relay[h]) \subseteq Signers(relay'[h])
          /\ (~relay[h].executed /\ relay'[h].executed) => IsExecutable(relay[h])
          /\ (IsExecutable(relay[h]) /\ Signers(relay'[h]) # Signers(relay[h]))
               => IsExecutable(relay[h])']_vars

\* C8 witness: at threshold 2 one proposal was executed with two signers
\* while another, with one signer, is still pending and not executable.
C8_Witness ==
  /\ \E h \in DOMAIN relay :
       relay[h].executed /\ relay[h].execThreshold = 2 /\ relay[h].execCount = 2
  /\ \E h \in DOMAIN relay :
       ~relay[h].executed /\ SignerCount(relay[h]) = 1 /\ threshold = 2

\* A step in which owner o completes a POST.
PostBy(o) == proc[o].pc \in {"proposeSigned", "confirmSigned"} /\ proc'[o].pc = "idle"

\* Owner o is about to re-add: o already signed the commitment being
\* confirmed, or already signed a proposal of the same transaction at the
\* nonce the Safe had when the command read it.
ReAdd(o) ==
  \/ /\ proc[o].pc = "confirmSigned"
     /\ proc[o].safeTxHash \in DOMAIN relay
     /\ o \in Signers(relay[proc[o].safeTxHash])
  \/ /\ proc[o].pc = "proposeSigned"
     /\ \E h \in DOMAIN relay :
          /\ relay[h].tx = [proc[o].txData EXCEPT !.nonce = proc[o].readNonce]
          /\ o \in Signers(relay[h])

\* C9: adding the same (commitment, signer) pair again is idempotent: the
\* set of proposals, every proposal's confirmations and so its distinct
\* signer count are the same after the POST as before it.
C9_ReAddIdempotent ==
  [][\A o \in Owners :
       (PostBy(o) /\ ReAdd(o)) =>
         /\ DOMAIN relay' = DOMAIN relay
         /\ \A h \in DOMAIN relay :
              /\ relay'[h].confirmations = relay[h].confirmations
              /\ SignerCount(relay'[h]) = SignerCount(relay[h])]_vars

\* C9 witness: the relay answered a POST by replacing the signer's earlier
\* confirmation when the signer proposed the same transaction again.
C9_Witness ==
  /\ lastPost.result = "replaced" /\ lastPost.kind = "propose"
  /\ \E h \in DOMAIN relay : SignerCount(relay[h]) = 2

\* C10: no addition is lost: every owner that completed a POST for a
\* commitment the relay knows is among that commitment's signers, however
\* the POSTs of the two co-signers interleave.
C10_NoLostAddition ==
  \A e \in posted : e[2] \in DOMAIN relay /\ e[1] \in Signers(relay[e[2]])

\* C10 witness: both owners completed a POST for the same commitment, one of
\* them while the other's signed request was still in flight.
C10_Witness ==
  \E h \in DOMAIN relay :
    /\ \E b \in BOOLEAN : <<Agent, h, b>> \in posted
    /\ \E b \in BOOLEAN : <<Human, h, b>> \in posted
    /\ \E o \in Owners : <<o, h, TRUE>> \in posted
    /\ Signers(relay[h]) = {Agent, Human}

\* ---- claims about listings
\* C11 (as stated): the threshold a listing shows for a pending proposal is
\* the Safe's threshold on chain when the listing is made.
C11_ListingUsesCurrentThreshold ==
  \A h \in DOMAIN listing : listing[h].confirmationsRequired = listThreshold

\* The fetched confirmation entries of commitment h that verify for h.
VerifiedEntries(h) ==
  {i \in 1..Len(pending[h].confirmations) :
     RecoverSigner(pending[h].confirmations[i].signature, h) = pending[h].confirmations[i].owner}

\* C14 (as stated): a fetched confirmation entry that does not verify for its
\* commitment is not counted and its owner is not listed as a signer.
C14_ListingCountsVerifiedOnly ==
  \A h \in DOMAIN listing :
    /\ listing[h].confirmations = Cardinality(VerifiedEntries(h))
    /\ \A i \in 1..Len(listing[h].signers) : i \in VerifiedEntries(h)

\* ---- claims about confirm
\* C12: a confirm for a commitment the relay has no proposal for fails with
\* an error surfaced to the caller (the command throws on the 404), and the
\* relay's proposals and their signatures are the same afterwards.
C12_UnknownCommitmentFails ==
  [][\A o \in Owners :
       (proc[o].pc = "confirmSigned" /\ proc[o].safeTxHash \notin DOMAIN relay
          /\ proc'[o].pc = "idle") =>
         /\ relay' = relay
         /\ lastPost'.owner = o /\ lastPost'.kind = "confirm"
         /\ lastPost'.outcome = "threw"]_vars

\* C12 witness: a confirm for the unknown hash was answered 404 and threw
\* while a proposal was pending.
C12_Witness ==
  /\ lastPost.kind = "confirm" /\ lastPost.status = 404 /\ lastPost.outcome = "threw"
  /\ DOMAIN relay # {}

\* The commitments of the Transactions the commands can build.
Commitments ==
  {computeSafeTxHash(DomainSeparator,
                     [to |-> a.to, value |-> a.value, data |-> a.data,
                      operation |-> a.operation, nonce |-> n]) :
     <<a, n>> \in ProposalArgs \X (0..MaxNonce)}

\* C13 (as stated): every value the key is asked to sign is a commitment
\* computed from a Transaction and the domain separator.
C13_SignsOnlyCommitments ==
  \A o \in Owners :
    proc[o].pc \in {"proposeSigned", "confirmSigned"} => proc[o].safeTxHash \in Commitments

\* ---- claims about the checks at the start of a run
\* C38: a run that reads an owner set without the agent's address exits with
\* an error: it goes to exit 1 with nothing logged, nothing in flight and the
\* ledger untouched, in dry-run mode too; so no run is ever at the dry-run
\* plan, at a write or at the verification, and no transaction is in flight,
\* unless the agent is an owner.
C38_NonOwnerRunExits ==
  /\ [][(cfgRuns' = cfgRuns + 1 /\ Agent \notin owners)
          => /\ cfgPc' = "exit1"
             /\ cfgLog' = <<>> /\ cfgFlight' = {}
             /\ UNCHANGED <<ledgerVars, applied>>]_vars
  /\ [](cfgPc \notin {"idle", "exit1"} => Agent \in owners)
  /\ [](cfgFlight # {} => Agent \in owners)

\* C38 witness: a dry run on a 1-of-1 Safe the human alone owns has exited
\* with an error.
C38_Witness ==
  /\ cfgPc = "exit1" /\ cfgArgs.dryRun /\ cfgRuns >= 1
  /\ safeAddress = "safe" /\ owners = {Human} /\ threshold = 1
  /\ cfgLog = <<>> /\ applied = {}

\* ---- claims about the end of a run
CfgRunning ==
  cfgPc \in {"tx1", "wait1", "settle1", "tx2", "wait2", "settle2", "tx3", "wait3", "settle3",
             "tx4", "wait4", "verify"}

\* C37: every run ends, completed ("done") or aborted ("exit1"), when the
\* script's own steps return and the ledger answers every submitted
\* transaction; a run submits at most four transactions, no step twice.
C37_RunTerminates ==
  /\ CfgRunning ~> (cfgPc \in {"done", "exit1"})
  /\ [](Len(cfgLog) + Cardinality(cfgFlight) <= 4)
  /\ [](\A i, j \in 1..Len(cfgLog) : cfgLog[i].step = cfgLog[j].step => i = j)
  /\ [](\A f \in cfgFlight : \A i \in 1..Len(cfgLog) : cfgLog[i].step # f.step)

\* C37 witness: a run aborted after its second transaction was rejected,
\* following a run that completed with four transactions.
C37_Witness ==
  /\ cfgPc = "exit1" /\ cfgRuns = 2
  /\ \E e \in applied : e.step = "setEthAllowance" /\ e.run = 1
  /\ Len(cfgLog) >= 1 /\ cfgLog[Len(cfgLog)].status # "success"

\* ---- claims about the nonce of the Sequencer's writes
\* The positions in cfgLog of the steps that were executed successfully.
CfgSuccesses == {i \in 1..Len(cfgLog) : cfgLog[i].status = "success"}

\* C32: in a run against a replica whose lag stays within the settle delay
\* every step is built with the Safe's current nonce, and the successfully
\* executed steps of a run use consecutive nonces; a step built with a stale
\* nonce (the lag exceeded the settle delay) is never executed successfully
\* and its receipt leaves the account's state as it was.
C32_CurrentNonceOrRejected ==
  /\ [](rpcLagBounded =>
          /\ \A f \in cfgFlight : f.nonce = f.chainNonce
          /\ \A i \in 1..Len(cfgLog) : cfgLog[i].nonce = cfgLog[i].chainNonce)
  /\ [](\A i, j \in CfgSuccesses :
          (i < j /\ ~\E k \in CfgSuccesses : i < k /\ k < j)
            => cfgLog[j].nonce = cfgLog[i].nonce + 1)
  /\ [](\A i \in 1..Len(cfgLog) :
          cfgLog[i].nonce # cfgLog[i].chainNonce => cfgLog[i].status # "success")
  /\ [][\A f \in cfgFlight :
          (f \notin cfgFlight' /\ f.nonce # f.chainNonce)
            => UNCHANGED <<ledgerVars, applied>>]_vars

\* C32 witness: with the lag within the settle delay the replica is behind
\* the chain during the settle after TX 3, and the three steps executed so
\* far used the nonces 0, 1, 2.
C32_Witness ==
  /\ rpcLagBounded /\ cfgPc = "settle3" /\ rpcNonce # safeNonce
  /\ Len(cfgLog) = 3 /\ CfgSuccesses = {1, 2, 3}
  /\ \A i \in 1..3 : cfgLog[i].nonce = i - 1

\* ---- claims about the threshold command
\* The threshold a transaction asks for, when it is a changeThreshold call.
IsChangeThreshold(tx) == tx.to = "safe" /\ Len(tx.data) = 2 /\ tx.data[1] = "changeThreshold"

\* C34: the threshold command signs and submits a threshold-change proposal
\* only for a value v with 1 <= v <= the number of on-chain owners; a command
\* with any other value ends with an error (exit 1, or the thrown RangeError
\* for a value that is no number), having signed nothing and submitted
\* nothing; and it ends that way only for such values.
C34_ThresholdRangeChecked ==
  /\ [](\A o \in Owners :
          (proc[o].pc = "proposeSigned" /\ IsChangeThreshold(proc[o].txData))
            => proc[o].txData.data[2] \in 1..Cardinality(owners))
  /\ [](\A h \in DOMAIN relay :
          IsChangeThreshold(relay[h].tx) => relay[h].tx.data[2] \in 1..Cardinality(owners))
  /\ [](lastPost.kind = "threshold" =>
          /\ lastPost.outcome \in {"exit1", "threw"}
          /\ parseInt(lastPost.value) \notin {Num(v) : v \in 1..Cardinality(owners)})
  /\ [][(lastPost'.kind = "threshold" /\ lastPost' # lastPost)
          => UNCHANGED <<relay, proc, posted, ledgerVars>>]_vars

\* C34 witness: on a one-owner account a command asking for threshold 2 has
\* just ended with an error while an earlier proposal, for threshold 1, is
\* stored with its one signature.
C34_Witness ==
  /\ owners = {Agent}
  /\ lastPost.kind = "threshold" /\ lastPost.outcome = "exit1" /\ lastPost.value = <<"2">>
  /\ \E h \in DOMAIN relay :
       IsChangeThreshold(relay[h].tx) /\ relay[h].tx.data[2] = 1 /\ SignerCount(relay[h]) = 1
  /\ \A o \in Owners : proc[o].pc = "idle"

\* ---- claims about the body of a proposal
\* C35: every proposal the propose command submits names as commitment the
\* hash of the submitted target, value, payload, operation and nonce under
\* the domain separator with all fee fields zero, carries exactly one
\* signature, which is the submitting agent's over that commitment, and
\* names that agent as the sender.
C35_ProposalBodyConsistent ==
  \A o \in Owners :
    proc[o].pc = "proposeSigned" =>
      LET b == ProposalBody(o) IN
      /\ b.contractTransactionHash = computeSafeTxHash(DomainSeparator, b.tx)
      /\ b.safeTxGas = 0 /\ b.baseGas = 0 /\ b.gasPrice = 0
      /\ b.gasToken = zeroAddress /\ b.refundReceiver = zeroAddress
      /\ SigByteLength(b.signature) = 65
      /\ RecoverSigner(b.signature, b.contractTransactionHash) = o
      /\ b.sender = o

\* C35 witness: after an execution the agent has built and signed a transfer
\* at nonce 1 and is about to submit it; an earlier proposal was accepted.
C35_Witness ==
  /\ proc[Agent].pc = "proposeSigned"
  /\ proc[Agent].txData = [to |-> "recipient", value |-> 1, data |-> <<>>, operation |-> 0,
                           nonce |-> 1]
  /\ lastPost.kind = "propose" /\ lastPost.outcome = "returned"
  /\ \E h \in DOMAIN relay : relay[h].executed

\* ---- claims about the nonce of proposals
\* Two stored proposals of different transactions built on the same nonce.
SameNonce(h1, h2) == h1 # h2 /\ relay[h1].tx.nonce = relay[h2].tx.nonce

\* C31: every proposal is built with the Safe nonce read when it is proposed
\* (so proposals made with no execution between them carry that same nonce);
\* of the proposals that share a nonce at most one is ever executed, and once
\* one is executed the ledger accepts none of the others, then or later: they
\* are superseded.
C31_SameNonceAtMostOneExecuted ==
  /\ [][\A o \in Owners :
          (proc[o].pc = "idle" /\ proc'[o].pc = "proposeSigned")
            => proc'[o].txData.nonce = safeNonce]_vars
  /\ [](\A h \in DOMAIN relay : relay[h].tx.nonce <= safeNonce)
  /\ [](\A h1, h2 \in DOMAIN relay :
          (SameNonce(h1, h2) /\ relay[h1].executed)
            => /\ ~relay[h2].executed
               /\ ~LedgerExecTransactionAccepts(relay[h2]))

\* C31 witness: two proposals were built on the same nonce; one was executed
\* and the other, still pending with enough signers, is behind the Safe's
\* nonce.
C31_Witness ==
  \E h1, h2 \in DOMAIN relay :
    /\ SameNonce(h1, h2)
    /\ relay[h1].executed /\ ~relay[h2].executed
    /\ SignerCount(relay[h2]) >= threshold
    /\ relay[h2].tx.nonce < safeNonce

\* ------------------------------------------------------------------------
\* computeSafeTxHash applied to pairs of inputs
\* ------------------------------------------------------------------------
DigestDomains == {DomainSeparator, <<"domain", "base", "other">>}
DigestInputs ==
  [domainSeparator : DigestDomains, to : {"safe", "recipient"}, value : {0, 1},
   data : {<<>>, <<"changeThreshold", 2>>}, operation : {0, 1}, nonce : 0..MaxNonce]

DigestOf(in) ==
  computeSafeTxHash(in.domainSeparator,
                    [to |-> in.to, value |-> in.value, data |-> in.data,
                     operation |-> in.operation, nonce |-> in.nonce])

DigestCompute ==
  /\ dgIn # <<>> /\ dgOut = <<>>
  /\ dgOut' = <<DigestOf(dgIn[1]), DigestOf(dgIn[2])>>
  /\ UNCHANGED <<ledgerVars, cfgVars, refillVars, statusVars, relayVars, dgIn, sgIn, sgOut, prIn, prOut>>

DigestInit ==
  /\ owners = Owners /\ threshold = 1 /\ moduleEnabled = TRUE /\ safeNonce = 0
  /\ delegates = {Agent}
  /\ allowance = [a \in Assets |-> NoAllowance]
  /\ nowMin = 1
  /\ dgIn \in DigestInputs \X DigestInputs
  /\ dgOut = <<>> /\ sgIn = <<>> /\ sgOut = <<>> /\ prIn = <<>> /\ prOut = <<>>
  /\ CfgIdle /\ RefillIdle /\ StatusIdle /\ RelayIdle

DigestNext == DigestCompute

SpecDigest == DigestInit /\ [][DigestNext]_vars

DigestFields == {"domainSeparator", "to", "value", "data", "operation", "nonce"}
DiffFields(a, b) == {f \in DigestFields : a[f] # b[f]}

\* C15: computeSafeTxHash is a function of (domain separator, to, value,
\* data, operation, nonce): equal inputs give equal commitments, and inputs
\* that differ in exactly one of the six fields give different commitments.
C15_CommitmentDeterministicAndSensitive ==
  dgOut # <<>> =>
    /\ dgIn[1] = dgIn[2] => dgOut[1] = dgOut[2]
    /\ Cardinality(DiffFields(dgIn[1], dgIn[2])) = 1 => dgOut[1] # dgOut[2]
    /\ dgOut[1] = DigestOf(dgIn[1])

\* C15 witness: two inputs that differ only in the operation were hashed to
\* two different commitments.
C15_Witness ==
  /\ dgOut # <<>>
  /\ DiffFields(dgIn[1], dgIn[2]) = {"operation"}
  /\ dgOut[1] # dgOut[2]

\* ------------------------------------------------------------------------
\* execSafeTx's inline hash and call arguments, applied to drawn inputs
\* ------------------------------------------------------------------------
ExecHashInputs ==
  [domainSeparator : DigestDomains, to : {"safe", "AllowanceModule", "recipient"},
   data : {<<>>, <<"addDelegate", Agent>>}, operation : {0, 1}, nonce : 0..MaxNonce]

\* execSafeTx on one input: <<the hash it signs, the arguments it executes>>.
ExecHashCompute ==
  /\ dgIn # <<>> /\ dgOut = <<>>
  /\ LET in == dgIn[1]
         safeTxHash == execSafeTxHash(in.domainSeparator, in.to, in.data, in.operation,
                                      in.nonce)
     IN dgOut' = <<safeTxHash,
                   execSafeTxArgs(in.to, in.data, in.operation,
                                  execSafeTxSignature(Agent, safeTxHash))>>
  /\ UNCHANGED <<ledgerVars, cfgVars, refillVars, statusVars, relayVars, dgIn, sgIn, sgOut, prIn, prOut>>

ExecHashInit ==
  /\ owners = Owners /\ threshold = 1 /\ moduleEnabled = TRUE /\ safeNonce = 0
  /\ delegates = {Agent}
  /\ allowance = [a \in Assets |-> NoAllowance]
  /\ nowMin = 1
  /\ dgIn \in {<<in>> : in \in ExecHashInputs}
  /\ dgOut = <<>> /\ sgIn = <<>> /\ sgOut = <<>> /\ prIn = <<>> /\ prOut = <<>>
  /\ CfgIdle /\ RefillIdle /\ StatusIdle /\ RelayIdle

ExecHashNext == ExecHashCompute

SpecExecHash == ExecHashInit /\ [][ExecHashNext]_vars

\* The Transaction the arguments of an execTransaction call describe, at a nonce.
ExecArgsTx(args, nonce) ==
  [to |-> args.to, value |-> args.value, data |-> args.data, operation |-> args.operation,
   nonce |-> nonce]

\* C36: for every domain separator, target, payload, operation and nonce the
\* hash execSafeTx computes inline is the one computeSafeTxHash gives for the
\* same fields with value 0; and what it hashes is what it executes: the
\* hash is computeSafeTxHash of the to, value, data and operation passed to
\* execTransaction, whose fee arguments are the zeros that were hashed, and
\* the signature passed is the agent's over that hash.
C36_InlineHashMatchesProposalHash ==
  dgOut # <<>> =>
    LET in == dgIn[1] IN
    /\ dgOut[1] = computeSafeTxHash(in.domainSeparator,
                                    [to |-> in.to, value |-> 0, data |-> in.data,
                                     operation |-> in.operation, nonce |-> in.nonce])
    /\ dgOut[1] = computeSafeTxHash(in.domainSeparator, ExecArgsTx(dgOut[2], in.nonce))
    /\ dgOut[2].value = 0
    /\ dgOut[2].safeTxGas = 0 /\ dgOut[2].baseGas = 0 /\ dgOut[2].gasPrice = 0
    /\ dgOut[2].gasToken = zeroAddress /\ dgOut[2].refundReceiver = zeroAddress
    /\ RecoverSigner(dgOut[2].signatures, dgOut[1]) = Agent

\* C36 witness: a delegate call to the AllowanceModule at nonce 2 under the
\* other domain separator was hashed and its arguments built.
C36_Witness ==
  /\ dgOut # <<>>
  /\ dgIn[1].operation = 1 /\ dgIn[1].nonce = 2 /\ dgIn[1].to = "AllowanceModule"
  /\ dgIn[1].domainSeparator # DomainSeparator /\ dgIn[1].data # <<>>
  /\ dgOut[2].operation = 1

\* ------------------------------------------------------------------------
\* The signature encoding applied to what the key custody returns
\* ------------------------------------------------------------------------
SignDigests == Commitments \cup {UnknownHash}

\* What the key custody can hand back for a digest: the 65-byte signature,
\* or a byte string of another length (64 bytes, 66 bytes).
CustodyOutputs(account, d) ==
  {signMessage(account, d),
   [signMessage(account, d) EXCEPT !.tail = <<>>],
   [signMessage(account, d) EXCEPT !.tail = Append(@, 0)]}

\* The three places that adjust the recovery byte; none of them throws.
SignEncode ==
  /\ sgIn # <<>> /\ sgOut = <<>>
  /\ sgOut' = <<"returned", OffsetRecoveryByte(sgIn.raw),
                signSafeTxHash(sgIn.signer, sgIn.digest),
                execSafeTxSignature(sgIn.signer, sgIn.digest)>>
  /\ UNCHANGED <<ledgerVars, cfgVars, refillVars, statusVars, relayVars, dgIn, dgOut, sgIn, prIn, prOut>>

SignInit ==
  /\ owners = Owners /\ threshold = 1 /\ moduleEnabled = TRUE /\ safeNonce = 0
  /\ delegates = {Agent}
  /\ allowance = [a \in Assets |-> NoAllowance]
  /\ nowMin = 1
  /\ \E s \in Owners : \E d \in SignDigests : \E raw \in CustodyOutputs(s, d) :
       sgIn = [signer |-> s, digest |-> d, raw |-> raw]
  /\ sgOut = <<>> /\ dgIn = <<>> /\ dgOut = <<>> /\ prIn = <<>> /\ prOut = <<>>
  /\ CfgIdle /\ RefillIdle /\ StatusIdle /\ RelayIdle

SignNext == SignEncode

SpecSign == SignInit /\ [][SignNext]_vars

\* sig is raw with only the byte at index 64 increased by 4.
IsOffsetOf(sig, raw) ==
  /\ sig.rs = raw.rs
  /\ Len(sig.tail) = 1 /\ Len(raw.tail) = 1
  /\ sig.tail[1] = raw.tail[1] + 4

\* C16: the signature signSafeTxHash (propose, confirm) and execSafeTx emit
\* for a digest is the key's raw 65-byte signature with only the byte at
\* index 64 increased by exactly 4, and it recovers to the signer under the
\* verification rule, for every digest and signer.
C16_OffsetEncodingRecovers ==
  sgOut # <<>> =>
    \A i \in {3, 4} :
      /\ IsOffsetOf(sgOut[i], signMessage(sgIn.signer, sgIn.digest))
      /\ SigByteLength(sgOut[i]) = 65
      /\ RecoverSigner(sgOut[i], sgIn.digest) = sgIn.signer

\* C16 witness: both signers' signatures were encoded, one with v 27 and one
\* with v 28 (here: the human owner's, v 28 -> 32).
C16_Witness ==
  /\ sgOut # <<>> /\ sgIn.signer = Human /\ sgIn.digest \in Commitments
  /\ sgOut[3].tail = <<32>> /\ sgOut[4].tail = <<32>>

C18_WritesOrderedOneInFlight ==
  /\ Cardinality(cfgFlight) <= 1
  /\ cfgFlight # {} => cfgPc \in {"wait1", "wait2", "wait3", "wait4"}
  /\ \A i, j \in 1..Len(cfgLog) :
       i < j => StepIndex(cfgLog[i].step) < StepIndex(cfgLog[j].step)
  /\ \A f \in cfgFlight : \A i \in 1..Len(cfgLog) :
       StepIndex(cfgLog[i].step) < StepIndex(f.step)

\* C18 witness: the ETH allowance transaction is in flight after the three
\* earlier steps were confirmed.
C18_Witness ==
  /\ \E f \in cfgFlight : f.step = "setEthAllowance"
  /\ [i \in 1..Len(cfgLog) |-> cfgLog[i].step] =
       <<"enableModule", "addDelegate", "setMorAllowance">>

\* C19: every write of a run after its first was built (its nonce read)
\* after settle() had run since the previous write's receipt.
C19_SettleBetweenWrites ==
  /\ \A i \in 2..Len(cfgLog) : cfgLog[i].settled
  /\ \A f \in cfgFlight : cfgLog # <<>> => f.settled

\* C19 witness: a run confirmed all four writes.
C19_Witness ==
  /\ Len(cfgLog) = 4 /\ cfgPc = "done"
  /\ \A i \in 1..4 : cfgLog[i].status = "success"

\* C20 (as stated): a stale nonce is never used to build and submit a
\* transaction: every transaction a run submits after an earlier write of
\* the run succeeded carries the nonce the Safe had when it was submitted.
C20_StaleNonceNeverSubmitted ==
  /\ \A i \in 2..Len(cfgLog) :
       cfgLog[i - 1].status = "success" => cfgLog[i].nonce = cfgLog[i].chainNonce
  /\ \A f \in cfgFlight :
       (cfgLog # <<>> /\ cfgLog[Len(cfgLog)].status = "success") => f.nonce = f.chainNonce

\* The enable-module transaction of the run, confirmed or in flight.
EnableModuleSubmitted ==
  \/ \E i \in 1..Len(cfgLog) : cfgLog[i].step = "enableModule"
  \/ \E f \in cfgFlight : f.step = "enableModule"

CfgPastTx1 ==
  cfgPc \in {"wait1", "settle1", "tx2", "wait2", "settle2", "tx3", "wait3", "settle3",
             "tx4", "wait4", "verify", "done"}

\* The account holds what the run's arguments configure.
CfgConfigured ==
  /\ moduleEnabled
  /\ Agent \in delegates
  /\ allowance[MOR].amount = cfgArgs.mor /\ allowance[MOR].resetTimeMin = cfgArgs.reset
  /\ allowance[ETH].amount = cfgArgs.eth /\ allowance[ETH].resetTimeMin = cfgArgs.reset

\* C22: from an account with threshold 1 whose owners include the agent,
\* with the module disabled and no delegate, a run in which no step is
\* rejected ends with the module enabled, the agent a delegate, the MOR and
\* the ETH allowance at the configured amount and reset interval, after
\* exactly four writes: the four steps in order.
C22_FreshRunConfiguresInFourWrites ==
  /\ ~moduleEnabled => delegates = {}
  /\ (cfgPc = "done" /\ ~cfgModuleEnabled /\ CfgAllStepsOk) =>
       /\ cfgThreshold = 1
       /\ CfgSteps = CfgStepOrder
       /\ CfgConfigured

\* A first run on a fresh account completed with the smaller MOR allowance.
C22_Witness ==
  /\ cfgPc = "done" /\ cfgRuns = 1 /\ ~cfgModuleEnabled /\ CfgAllStepsOk
  /\ cfgArgs.mor = 3 /\ allowance[MOR].amount = 3 /\ allowance[ETH].amount = 5

\* A step taken by a dry run of configure or of deploy.
DryStep ==
  \/ cfgRuns' # cfgRuns /\ cfgArgs'.dryRun
  \/ <<depPc, depArgs>>' # <<depPc, depArgs>> /\ depArgs'.dryRun

\* C26: with the dry-run flag set, configure and deploy submit no
\* transaction: the run stops at the plan (or at a failed check), nothing of
\* it is in flight or logged, and its steps leave the ledger unchanged.
C26_DryRunWritesNothing ==
  /\ [](cfgArgs.dryRun => (cfgPc \in {"dry", "exit1"} /\ cfgLog = <<>> /\ cfgFlight = {}))
  /\ [](depArgs.dryRun => depPc \in {"dry", "exit1"})
  /\ [][DryStep => UNCHANGED <<ledgerVars, applied, safeAddress>>]_vars

\* A dry run of configure on a deployed account that an earlier run had
\* configured: the plan was printed and nothing was submitted.
C26_Witness ==
  /\ cfgPc = "dry" /\ cfgArgs.dryRun /\ cfgRuns = 2
  /\ depPc = "done" /\ moduleEnabled /\ cfgLog = <<>>

\* C27: in a run that passed the checks and is not dry, the enable-module
\* transaction is submitted if and only if the module-enabled flag read at
\* the start was false; when it was true step 1 writes nothing.
C27_EnableModuleIffFlagFalse ==
  /\ EnableModuleSubmitted => ~cfgModuleEnabled
  /\ CfgPastTx1 => (EnableModuleSubmitted <=> ~cfgModuleEnabled)

\* A completed run that read the flag as true and went on without TX 1.
C27_Witness ==
  /\ cfgPc = "done" /\ cfgModuleEnabled /\ ~EnableModuleSubmitted
  /\ CfgSteps = <<"setMorAllowance", "setEthAllowance">>

\* What holds of a run whose threshold is raised under it: the threshold is
\* read only when a run starts; every transaction the run submits carries
\* the agent's single signature; nothing confirmed while the threshold is
\* above 1 succeeded; and whatever took effect carried at least as many
\* owner signatures as the threshold then in force.
C30_State ==
  /\ \A f \in cfgFlight :
       /\ SigByteLength(f.signature) = 65
       /\ RecoverSigner(f.signature, f.safeTxHash) = Agent
  /\ \A i \in 1..Len(cfgLog) : cfgLog[i].threshold > 1 => cfgLog[i].status # "success"
  /\ \A a \in applied : a.sigs >= a.threshold
  /\ cfgLog # <<>> => cfgThreshold = 1

\* A run ended right after a step was rejected under a raised threshold.
C30_EndedOnRejection ==
  /\ cfgPc \in {"done", "exit1"} /\ cfgLog # <<>>
  /\ cfgLog[Len(cfgLog)].threshold > 1
  /\ cfgLog[Len(cfgLog)].status = "reverted"

\* C30 (as stated): the threshold is read once at the start; if it is raised
\* above 1 during a run, the remaining steps are all still submitted with a
\* single signature (so the last of them, the ETH allowance, was), none
\* takes effect, and nothing takes effect with fewer signatures than the
\* threshold in force.
C30_RemainingStepsAllSubmitted ==
  /\ C30_State
  /\ C30_EndedOnRejection => cfgLog[Len(cfgLog)].step = "setEthAllowance"

\* C30 (amended): as C30_State, with the threshold changing only at a run's
\* start; after a rejected step 1 or 2 the run aborts, after a rejected MOR
\* allowance it goes on to submit the ETH allowance.
C30_SingleSignedNeverEffective ==
  /\ []C30_State
  /\ [](C30_EndedOnRejection =>
          \/ cfgPc = "exit1" /\ cfgLog[Len(cfgLog)].step \in {"enableModule", "addDelegate"}
          \/ cfgPc = "done" /\ cfgLog[Len(cfgLog)].step = "setEthAllowance")
  /\ [][cfgThreshold' # cfgThreshold => cfgRuns' = cfgRuns + 1]_vars

\* The threshold was raised during a run: the MOR and then the ETH allowance
\* were still submitted and both were rejected.
C30_Witness ==
  /\ cfgPc = "done" /\ cfgThreshold = 1 /\ threshold = 2
  /\ \E i \in 1..Len(cfgLog) - 1 :
       /\ cfgLog[i].step = "setMorAllowance" /\ cfgLog[i].threshold = 2
       /\ cfgLog[i].status = "reverted"
       /\ cfgLog[i + 1].step = "setEthAllowance" /\ cfgLog[i + 1].status = "reverted"

\* The add-delegate transaction of the run, confirmed or in flight.
AddDelegateSubmitted ==
  \/ \E i \in 1..Len(cfgLog) : cfgLog[i].step = "addDelegate"
  \/ \E f \in cfgFlight : f.step = "addDelegate"

CfgPastTx2 ==
  cfgPc \in {"wait2", "settle2", "tx3", "wait3", "settle3", "tx4", "wait4", "verify", "done"}

\* C21: the Sequencer is resumable.  A run started after the previous run was
\* terminated, at whatever point and with or without a transaction of it
\* still in flight, that completes at threshold 1 with no step rejected ends
\* with the module enabled, the agent a delegate and both allowances at the
\* configured values; and a step such a run skips is one whose effect is
\* already on the ledger, so nothing applied earlier stands in its way.
C21_ResumedRunConfigures ==
  cfgAfterKill =>
    /\ (cfgPc = "done" /\ cfgThreshold = 1 /\ CfgAllStepsOk) => CfgConfigured
    /\ (CfgPastTx1 /\ ~EnableModuleSubmitted) => moduleEnabled
    /\ (CfgPastTx2 /\ ~AddDelegateSubmitted /\ CfgAllStepsOk) => Agent \in delegates

\* A run was terminated with its MOR allowance transaction in flight; that
\* transaction took effect after the next run had started, and the next run
\* skipped the first two steps and completed.
C21_Witness ==
  /\ cfgAfterKill /\ cfgPc = "done" /\ CfgAllStepsOk
  /\ CfgSteps = <<"setMorAllowance", "setEthAllowance">>
  /\ \E a \in applied : a.late /\ a.step = "setMorAllowance"

\* What the Safe's nonce guarantees when transactions of two runs, or of a
\* run and another submitter, are in flight together: each nonce value is
\* consumed by at most one transaction, and a transaction takes effect only
\* if its commitment was built with the nonce current at execution.
C29_NonceSerialises ==
  /\ \A a, b \in applied : a.nonce = b.nonce => a = b
  /\ \A a \in applied : a.txNonce = a.nonce

\* A step took effect through a transaction of an earlier run after a later
\* run had started, and through a transaction of the later run as well.
C29_StepTwice ==
  \E a, b \in applied : a.late /\ b.run > a.run /\ a.step = b.step

C23_ListingsReadOnly ==
  /\ [](keyLoads \subseteq {"propose", "confirm"})
  /\ [][(cmdPending \/ StatusPending) =>
          UNCHANGED <<ledgerVars, relay, posted, lastPost, proc, keyLoads>>]_vars

\* A listing that reported a proposal was made, and a later command changed
\* what the last listing holds, with the key loaded by the proposal only.
C23_Witness ==
  /\ relayCmds = MaxCmds
  /\ DOMAIN listing # {} /\ DOMAIN relay # {}
  /\ keyLoads = {"propose"}

\* ------------------------------------------------------------------------
\* SpecProbe: the delegate probe of TX 2 against accounts with any number
\* of registered delegates.
\* ------------------------------------------------------------------------

\* pageSize argument of the getDelegates call
DelegatePageSize == 10

\* Delegates other than the agent, by registration.
OtherDelegates ==
  <<"d01", "d02", "d03", "d04", "d05", "d06", "d07", "d08", "d09", "d10",
    "d11", "d12", "d13", "d14">>

\* A delegate list of n entries with the agent at position k (absent if k = 0).
DelegateList(n, k) ==
  [i \in 1..n |-> IF i = k THEN Agent
                  ELSE IF k # 0 /\ i > k THEN OtherDelegates[i - 1]
                  ELSE OtherDelegates[i]]

Range(f) == {f[i] : i \in DOMAIN f}

\* AllowanceModule.getDelegates(safe, start, pageSize) with start = 0: the
\* first pageSize delegates in the module's order, and the start of the
\* next page (0 when the listing is complete).
LedgerGetDelegates(list, pageSize) ==
  [results |-> SubSeq(list, 1, IF Len(list) < pageSize THEN Len(list) ELSE pageSize),
   next |-> IF Len(list) > pageSize THEN pageSize + 1 ELSE 0]

\* const [delegates] = getDelegates(safeAddress, 0, 10): the first page
\* only; `next` is dropped.
ProbeDelegates(list) == Range(LedgerGetDelegates(list, DelegatePageSize).results)

\* TX 2 of main(): the probe and the decision to submit addDelegate.
ProbeRun ==
  /\ prOut = <<>>
  /\ LET page == ProbeDelegates(prIn)
     IN  prOut' = <<page, AlreadyDelegate(page), ~AlreadyDelegate(page)>>
  /\ UNCHANGED <<ledgerVars, cfgVars, refillVars, statusVars, relayVars,
                 dgIn, dgOut, sgIn, sgOut, prIn>>

ProbeInit ==
  /\ \E n \in 0..MaxDelegates : \E k \in 0..n :
       /\ prIn = DelegateList(n, k)
       /\ delegates = Range(prIn)
  /\ prOut = <<>>
  /\ owners \in {Owners, {Agent}} /\ threshold = 1
  /\ moduleEnabled = TRUE /\ safeNonce = 0
  /\ allowance = [a \in Assets |-> NoAllowance]
  /\ nowMin = 1
  /\ dgIn = <<>> /\ dgOut = <<>> /\ sgIn = <<>> /\ sgOut = <<>>
  /\ CfgIdle /\ RefillIdle /\ StatusIdle /\ RelayIdle

ProbeNext == ProbeRun

SpecProbe == ProbeInit /\ [][ProbeNext]_vars

\* C28 (as stated): whenever the agent is already a registered delegate of
\* the account, however many delegates the account has, step 2 detects it
\* and submits no add-delegate transaction.
C28_RegisteredAgentNeverReAdded ==
  (prOut # <<>> /\ Agent \in delegates) => (prOut[2] /\ ~prOut[3])

\* Within one page the probe is exact: with at most DelegatePageSize
\* delegates, addDelegate is submitted exactly when the agent is not one.
C28_ExactWithinOnePage ==
  (prOut # <<>> /\ Len(prIn) <= DelegatePageSize) => (prOut[3] <=> Agent \notin delegates)

====
